---- MODULE Spec2Model ----
(***************************************************************************)
(* Point-in-time S&P 500 membership (ledger of add/remove events, daily    *)
(* reconstruction) and the layered backfill orchestrator of                *)
(* touhou09/stock_dashboard, as state machines.                            *)
(*                                                                         *)
(* Dates are day ordinals: day 0 is Wednesday 2020-01-01, so day 1 is      *)
(* Thursday 2020-01-02 and day 3 is the first Saturday.  All days of the   *)
(* model lie in one calendar year.                                         *)
(***************************************************************************)
EXTENDS Integers, Sequences, FiniteSets, TLC

\* ------------------------------------------------------------------ bounds
\* Last day ordinal of the calendar of the model.
MaxDay == 3
\* Longest ledger an initial state of Spec holds.
MaxLedger == 2
\* Longest event list handed to one save_membership_changes call.
MaxBatch == 2
\* Longest ledger SpecLedger lets the store grow to.
MaxStored == 3
\* Bronze backfill runs one behaviour of SpecBronze makes.
MaxRuns == 2
\* Most constituents of one date in SpecCollect.
MaxTickers == 100
\* Largest batch_size of a price collection in SpecCollect.
MaxBatchSize == 2
\* Membership setups one behaviour of SpecDaily runs.
MaxSetups == 2
\* Last day ordinal handed to a trading-day enumeration in SpecDates; day 5 is
\* Monday 2020-01-06 and day 11 the Sunday after it.
MaxDate == 12
\* Largest max_retries handed to get_sp500_from_wikipedia in SpecFetch.
MaxRetries == 4

\* pd.NaT, the out_dt of a record without a remove event.
NaT == -1

Tickers == {"A", "B"}
Days == 0 .. MaxDay
ChangeActions == {"add", "remove"}

\* A row of the membership-changes table.  The uniqueness key of the spec is
\* (effective_date, action, ticker); description is the non-key payload.
Event(d, a, t, txt) ==
  [effective_date |-> d, action |-> a, ticker |-> t, description |-> txt]

AllEvents == {Event(d, a, t, "d1") : d \in Days, a \in ChangeActions, t \in Tickers}

\* Event lists handed to save_membership_changes in SpecLedger: two rows that
\* share a key and differ in description, and two rows with other keys.
SampleEvents ==
  { Event(1, "add", "A", "d1"), Event(1, "add", "A", "d2"),
    Event(1, "remove", "A", "d1"), Event(2, "add", "B", "d1") }

SeqsUpTo(S, n) == UNION {[1 .. k -> S] : k \in 0 .. n}

Key(e) == <<e.effective_date, e.action, e.ticker>>

Rows(df) == {df[i] : i \in DOMAIN df}

------------------------------------------------------------------------------
VARIABLES
  membership_changes,  \* the Delta table at membership_changes_path
  membership_daily,    \* the Delta table at membership_daily_path
  call,                \* the last call of the membership tracker: inputs, outcome
  pc,                  \* run_full_backfill: the step the run is at
  params,              \* run_full_backfill: its arguments
  trace,               \* run_full_backfill: the layer steps started, with results
  returned,            \* run_full_backfill: its return value
  bronze_price,        \* the Delta table at price_table_path
  bronze_dividend,     \* the Delta table at dividend_events_table_path
  events,              \* gate consultations, provider fetches and writes, in order
  bronze_run,          \* the bronze backfill in progress or last finished
  collection,          \* the last single-date collection call: inputs, outcome
  workers,             \* concurrent run_price_only_collection invocations
  silver_dividend_metrics, \* the Delta table at silver_dividend_metrics_path
  silver_save,         \* the last save_dividend_metrics_to_delta call
  dates_call,          \* the last trading-day enumeration: arguments, result
  wiki_fetch           \* get_sp500_from_wikipedia: the retry loop in progress

membership_vars == <<membership_changes, membership_daily, call>>
backfill_vars == <<pc, params, trace, returned>>
store_vars == <<bronze_price, bronze_dividend, events>>
bronze_vars == <<bronze_price, bronze_dividend, events, bronze_run, collection, workers>>
side_vars == <<silver_dividend_metrics, silver_save, dates_call, wiki_fetch>>
vars == <<membership_changes, membership_daily, call, pc, params, trace, returned,
          bronze_price, bronze_dividend, events, bronze_run, collection, workers,
          silver_dividend_metrics, silver_save, dates_call, wiki_fetch>>

------------------------------------------------------------------------------
\* datetime.date.weekday(): Monday is 0.
Weekday(d) == (d + 2) % 7

RECURSIVE DateList(_, _)
\* The weekday loop of generate_daily_membership (and of the bronze backfills).
DateList(current_date, end_date) ==
  IF current_date > end_date THEN <<>>
  ELSE (IF Weekday(current_date) < 5 THEN <<current_date>> ELSE <<>>)
       \o DateList(current_date + 1, end_date)

MinOf(S) == CHOOSE x \in S : \A y \in S : x <= y

\* Mutant of GetSp500ForYear: an empty table instead of the final raise.
GetSp500ForYear_EmptyOnFailure(primary, alt, page) ==
  IF primary = "symbol" \/ (primary = "raise" /\ alt = "symbol")
  THEN [raised |-> FALSE, symbols |-> page]
  ELSE [raised |-> FALSE, symbols |-> {}]

\* get_sp500_for_year: pd.read_html first; only when that raises, the
\* requests + BeautifulSoup alternative.  primary is "symbol" (a table with a
\* Symbol column), "nosymbol" or "raise"; alt is "symbol" or "fail".
\* page is the set of symbols the reference page lists.
GetSp500ForYear(primary, alt, page) ==
  IF primary = "symbol" THEN [raised |-> FALSE, symbols |-> page]
  ELSE IF primary = "raise" /\ alt = "symbol" THEN [raised |-> FALSE, symbols |-> page]
  ELSE [raised |-> TRUE, symbols |-> {}]

\* changes_df[changes_df['effective_date'] <= target_date]
RelevantChanges(changes_df, target_date) ==
  SelectSeq(changes_df, LAMBDA e : e.effective_date <= target_date)

AddedTickers(relevant_changes) ==
  {e.ticker : e \in {x \in Rows(relevant_changes) : x.action = "add"}}

RemovedTickers(relevant_changes) ==
  {e.ticker : e \in {x \in Rows(relevant_changes) : x.action = "remove"}}

ValidAddedTickers(relevant_changes, target_date) ==
  {t \in AddedTickers(relevant_changes) :
     LET add_changes == {x \in Rows(relevant_changes) : x.ticker = t /\ x.action = "add"}
     IN  add_changes # {}
         /\ MinOf({x.effective_date : x \in add_changes}) <= target_date}

\* Mutant of DailyTickers: removals applied to the base only, so an add wins.
DailyTickers_AddWins(base_tickers, valid_added_tickers, removed_tickers) ==
  (base_tickers \ removed_tickers) \cup valid_added_tickers

\* Mutant of DailyTickers: removed tickers are not subtracted.
DailyTickers_NoRemoval(base_tickers, valid_added_tickers, removed_tickers) ==
  base_tickers \cup valid_added_tickers

DailyTickers(base_tickers, valid_added_tickers, removed_tickers) ==
  (base_tickers \cup valid_added_tickers) \ removed_tickers

MaxOf(S) == CHOOSE x \in S : \A y \in S : x >= y

\* Mutant of MembershipRecord: max() for min() on the add dates.
MembershipRecord_LatestAdd(relevant_changes, ticker, target_date) ==
  LET ticker_adds == {x \in Rows(relevant_changes) : x.ticker = ticker /\ x.action = "add"}
      ticker_removes == {x \in Rows(relevant_changes) : x.ticker = ticker /\ x.action = "remove"}
  IN  [date |-> target_date,
       ticker |-> ticker,
       in_dt |-> IF ticker_adds # {} THEN MaxOf({x.effective_date : x \in ticker_adds})
                 ELSE target_date,
       out_dt |-> IF ticker_removes # {} THEN MinOf({x.effective_date : x \in ticker_removes})
                  ELSE NaT,
       is_member |-> TRUE]

\* The record appended for one ticker of daily_tickers.
MembershipRecord(relevant_changes, ticker, target_date) ==
  LET ticker_adds == {x \in Rows(relevant_changes) : x.ticker = ticker /\ x.action = "add"}
      ticker_removes == {x \in Rows(relevant_changes) : x.ticker = ticker /\ x.action = "remove"}
  IN  [date |-> target_date,
       ticker |-> ticker,
       in_dt |-> IF ticker_adds # {} THEN MinOf({x.effective_date : x \in ticker_adds})
                 ELSE target_date,
       out_dt |-> IF ticker_removes # {} THEN MinOf({x.effective_date : x \in ticker_removes})
                  ELSE NaT,
       is_member |-> TRUE]

\* The records of one target_date.
DailyRecords(changes_df, base_tickers, target_date) ==
  LET relevant_changes == RelevantChanges(changes_df, target_date)
      daily_tickers == DailyTickers(base_tickers,
                                    ValidAddedTickers(relevant_changes, target_date),
                                    RemovedTickers(relevant_changes))
  IN  {MembershipRecord(relevant_changes, t, target_date) : t \in daily_tickers}

\* generate_daily_membership.  read_ok: DeltaTable(...).to_pandas() returned
\* (it raises when the table does not exist).  The result is the DataFrame as
\* a set of rows, or raised.
GenerateDailyMembership(table, read_ok, primary, alt, page, start_date, end_date) ==
  IF ~(table.exists /\ read_ok) THEN [raised |-> TRUE, df |-> {}]
  ELSE IF table.rows = <<>> THEN [raised |-> FALSE, df |-> {}]
  ELSE LET current_sp500 == GetSp500ForYear(primary, alt, page)
           date_list == DateList(start_date, end_date)
       IN  IF current_sp500.raised THEN [raised |-> TRUE, df |-> {}]
           ELSE [raised |-> FALSE,
                 df |-> UNION {DailyRecords(table.rows, current_sp500.symbols, date_list[i])
                               : i \in DOMAIN date_list}]

\* save_membership_changes.  read_ok: the read of the existing table returned;
\* any exception of that read (a missing table included) is swallowed and the
\* write goes on with mode "overwrite".  write_ok: write_deltalake returned.
\* wrote: write_deltalake was called.
SaveMembershipChanges(table, changes_df, read_ok, write_ok) ==
  IF changes_df = <<>> THEN [table |-> table, raised |-> FALSE, wrote |-> FALSE]
  ELSE LET readable == table.exists /\ read_ok
           existing_df == table.rows
           existing_keys == {Key(x) : x \in Rows(existing_df)}
           residual == SelectSeq(changes_df, LAMBDA e : Key(e) \notin existing_keys)
           to_write == IF readable /\ existing_df # <<>>
                       THEN existing_df \o residual
                       ELSE changes_df
       IN  IF readable /\ existing_df # <<>> /\ residual = <<>>
           THEN [table |-> table, raised |-> FALSE, wrote |-> FALSE]
           ELSE IF write_ok
           THEN [table |-> [exists |-> TRUE, rows |-> to_write],
                 raised |-> FALSE, wrote |-> TRUE]
           ELSE [table |-> table, raised |-> TRUE, wrote |-> TRUE]

\* save_daily_membership: one write_deltalake with mode "overwrite".
SaveDailyMembership(table, daily_membership_df, write_ok) ==
  IF daily_membership_df = {} THEN [table |-> table, raised |-> FALSE, wrote |-> FALSE]
  ELSE IF write_ok
  THEN [table |-> [exists |-> TRUE, rows |-> daily_membership_df],
        raised |-> FALSE, wrote |-> TRUE]
  ELSE [table |-> table, raised |-> TRUE, wrote |-> TRUE]

\* create_manual_membership_changes: a fixed list, adds first, removes after,
\* no two rows with one key.
ManualChanges == <<Event(1, "add", "B", "d1"), Event(0, "remove", "A", "d1")>>

\* What scrape_wikipedia_changes can return: duplicates on the key dropped,
\* sorted by effective_date; empty when nothing was parsed.
ScrapedChanges ==
  {s \in SeqsUpTo({Event(1, "add", "A", "d1"), Event(2, "remove", "B", "d1")}, 2) :
     /\ \A i, j \in DOMAIN s : i # j => Key(s[i]) # Key(s[j])
     /\ \A i, j \in DOMAIN s : i < j => s[i].effective_date <= s[j].effective_date}

\* run_membership_setup, steps 1 to 4; any exception is re-raised.  f names
\* the outcome of each external call of the run.
RunMembershipSetup(changes_table, daily_table, changes_df, f, start_date, end_date) ==
  LET saved == IF changes_df # <<>>
               THEN SaveMembershipChanges(changes_table, changes_df, f.read_ok, f.write_ok)
               ELSE [table |-> changes_table, raised |-> FALSE, wrote |-> FALSE]
      gen == GenerateDailyMembership(saved.table, f.gen_read_ok, f.primary, f.alt, f.page,
                                     start_date, end_date)
      stored == IF gen.df # {}
                THEN SaveDailyMembership(daily_table, gen.df, f.daily_write_ok)
                ELSE [table |-> daily_table, raised |-> FALSE, wrote |-> FALSE]
  IN  IF saved.raised
      THEN [changes |-> saved.table, daily |-> daily_table, raised |-> TRUE,
            gen_reached |-> FALSE, gen |-> [raised |-> FALSE, df |-> {}],
            wrote_daily |-> FALSE]
      ELSE IF gen.raised
      THEN [changes |-> saved.table, daily |-> daily_table, raised |-> TRUE,
            gen_reached |-> TRUE, gen |-> gen, wrote_daily |-> FALSE]
      ELSE [changes |-> saved.table, daily |-> stored.table, raised |-> stored.raised,
            gen_reached |-> TRUE, gen |-> gen, wrote_daily |-> stored.wrote]

------------------------------------------------------------------------------
\* The record of "no call yet"; every call record has these fields.
NoCall ==
  [op |-> "none", changes |-> <<>>, ledger |-> <<>>, readable |-> FALSE,
   gen_reached |-> FALSE, primary |-> "symbol", alt |-> "symbol", page |-> {},
   start_date |-> 0, end_date |-> 0, raised |-> FALSE, gen_raised |-> FALSE,
   df |-> {}, wrote |-> FALSE, wrote_daily |-> FALSE,
   daily_before |-> {}, target_date |-> 0, read_ok |-> TRUE, second |-> "none",
   tickers |-> {}, setups |-> 0]

\* Outcomes of the two attempts of get_sp500_for_year and the page they read.
\* An attempt that is not made, or a page that is not parsed, is fixed.
SourceOutcomes ==
  {[primary |-> "symbol", alt |-> "symbol", page |-> p] : p \in SUBSET Tickers}
  \cup {[primary |-> "raise", alt |-> "symbol", page |-> p] : p \in SUBSET Tickers}
  \cup {[primary |-> "nosymbol", alt |-> "symbol", page |-> {}],
        [primary |-> "raise", alt |-> "fail", page |-> {}]}

\* Ledgers in one canonical row order: no operation of the tracker reads the
\* order of the rows (set(), min(), isin), so one order stands for all.
Rank(e) ==
  4 * e.effective_date + (IF e.action = "remove" THEN 2 ELSE 0)
  + (IF e.ticker = "B" THEN 1 ELSE 0)

Canonical(s) == \A i, j \in DOMAIN s : i < j => Rank(s[i]) <= Rank(s[j])

------------------------------------------------------------------------------
\* Bronze layer: the Delta tables of DeltaStorageManager.  A price table holds,
\* per date, the number of row sets written for that date; a dividend table
\* holds, per (ex_date, date), the number of copies of that event row.

EmptyPriceRows == [d \in Days |-> 0]
NoPriceTable == [exists |-> FALSE, rows |-> EmptyPriceRows]

DividendKeys == Days \X Days
EmptyDividendRows == [k \in DividendKeys |-> 0]
NoDividendTable == [exists |-> FALSE, rows |-> EmptyDividendRows]

StoreEvent(op, target_date, result) == [op |-> op, date |-> target_date, result |-> result]

\* check_existing_data: True when the table has a row of the date; False when
\* it has none and also when reading the table raises.
CheckExistingData(table, target_date, read_ok) ==
  IF table.exists /\ read_ok THEN table.rows[target_date] > 0 ELSE FALSE

\* write_deltalake of the rows of one date, with mode append or overwrite.
WritePrice(table, mode, target_date) ==
  [exists |-> TRUE,
   rows |-> IF mode = "append" THEN [table.rows EXCEPT ![target_date] = @ + 1]
            ELSE [EmptyPriceRows EXCEPT ![target_date] = 1]]

\* save_price_data_to_delta: nothing to save, or the date is there already, or
\* the rows are appended (overwritten when DeltaTable(path) raises).
SavePriceDataToDelta(table, has_data, target_date, env) ==
  IF ~has_data THEN [table |-> table, raised |-> FALSE, events |-> <<>>]
  ELSE
    LET existing == CheckExistingData(table, target_date, env.gate_ok)
        gate == <<StoreEvent("gate", target_date, existing)>>
        mode == IF table.exists /\ env.open_ok THEN "append" ELSE "overwrite"
    IN  IF existing THEN [table |-> table, raised |-> FALSE, events |-> gate]
        ELSE IF ~env.write_ok THEN [table |-> table, raised |-> TRUE, events |-> gate]
        ELSE [table |-> WritePrice(table, mode, target_date), raised |-> FALSE,
              events |-> gate \o <<StoreEvent("write", target_date, TRUE)>>]

\* save_dividend_events_to_delta: the rows are appended as they are (the
\* table is overwritten when DeltaTable(path) raises).
SaveDividendEventsToDelta(table, dividend_events_df, target_date, env) ==
  IF dividend_events_df = {} THEN [table |-> table, raised |-> FALSE, events |-> <<>>]
  ELSE IF ~env.write_ok THEN [table |-> table, raised |-> TRUE, events |-> <<>>]
  ELSE
    LET base == IF table.exists /\ env.open_ok THEN table.rows ELSE EmptyDividendRows
    IN  [table |-> [exists |-> TRUE,
                    rows |-> [k \in DividendKeys |->
                                base[k] + (IF k \in dividend_events_df THEN 1 ELSE 0)]],
         raised |-> FALSE,
         events |-> <<StoreEvent("write_div", target_date, TRUE)>>]

\* get_dividend_data_for_date / fetch_dividend_events_for_tickers: the events
\* of the provider's history with since <= ex_date <= until, stamped with the
\* collection date.
DividendEvents(history, since, until, collection_date) ==
  {<<ex_date, collection_date>> : ex_date \in {e \in history : since <= e /\ e <= until}}

\* Mutant of IsSuccess: the rate has to exceed 90%.
IsSuccess_Strict(successful, failed) ==
  IF successful + failed > 0 THEN 10 * successful > 9 * (successful + failed) ELSE FALSE

\* success_rate = successful / (successful + failed), 0 when nothing was
\* attempted; is_success = success_rate >= 0.9.  For counts below 2^50 the
\* double quotient stands to the double 0.9 as the fraction stands to 9/10.
IsSuccess(successful, failed) ==
  IF successful + failed > 0 THEN 10 * successful >= 9 * (successful + failed) ELSE FALSE

\* What a single-date collection leaves and returns; raised tells that it
\* returned False from an except branch.
CollectionResult(price, dividend, log, raised, result) ==
  [price |-> price, dividend |-> dividend, events |-> log, raised |-> raised,
   result |-> result]

\* run_point_in_time_collection(target_date).  `in` holds what the calls it
\* makes give back: constituents (tickers, empty, raise), the numbers of
\* tickers with and without price data, the provider's dividend history and
\* the outcomes of the reads and writes of the store.
RunPointInTimeCollection(price, dividend, target_date, in) ==
  IF in.constituents # "tickers"
  THEN CollectionResult(price, dividend, <<>>, in.constituents = "raise", FALSE)
  ELSE
    LET fetch == <<StoreEvent("fetch", target_date, in.successful > 0)>>
        saved == SavePriceDataToDelta(price, in.successful > 0, target_date, in)
        dividend_df == DividendEvents(in.history, target_date - 400, target_date, target_date)
        fetch_div == <<StoreEvent("fetch_div", target_date, dividend_df # {})>>
        dsaved == SaveDividendEventsToDelta(dividend, dividend_df, target_date, in)
    IN  IF saved.raised
        THEN CollectionResult(price, dividend, fetch \o saved.events, TRUE, FALSE)
        ELSE IF dsaved.raised
        THEN CollectionResult(saved.table, dividend,
                              fetch \o saved.events \o fetch_div, TRUE, FALSE)
        ELSE CollectionResult(saved.table, dsaved.table,
                              fetch \o saved.events \o fetch_div \o dsaved.events,
                              FALSE, IsSuccess(in.successful, in.failed))

\* Mutant of RunPriceOnlyCollection: the 90% threshold of the point-in-time
\* path decides the result.
RunPriceOnlyCollection_Threshold(price, target_date, in) ==
  LET existing == CheckExistingData(price, target_date, in.gate_ok)
      gate == <<StoreEvent("gate", target_date, existing)>>
      fetch == IF in.constituents = "tickers"
               THEN <<StoreEvent("fetch", target_date, in.successful > 0)>> ELSE <<>>
      has_data == in.constituents = "tickers" /\ in.successful > 0
      saved == SavePriceDataToDelta(price, has_data, target_date, in)
  IN  IF existing THEN [table |-> price, events |-> gate, result |-> TRUE]
      ELSE IF in.constituents = "raise"
      THEN [table |-> price, events |-> gate, result |-> FALSE]
      ELSE [table |-> saved.table, events |-> gate \o fetch \o saved.events,
            result |-> ~saved.raised /\ IsSuccess(in.successful, in.failed)]

\* run_price_only_collection(target_date): the gate first; True whatever the
\* share of tickers with data; False when a step raises.
RunPriceOnlyCollection(price, target_date, in) ==
  LET existing == CheckExistingData(price, target_date, in.gate_ok)
      gate == <<StoreEvent("gate", target_date, existing)>>
      fetch == IF in.constituents = "tickers"
               THEN <<StoreEvent("fetch", target_date, in.successful > 0)>> ELSE <<>>
      has_data == in.constituents = "tickers" /\ in.successful > 0
      saved == SavePriceDataToDelta(price, has_data, target_date, in)
  IN  IF existing THEN [table |-> price, events |-> gate, result |-> TRUE]
      ELSE IF in.constituents = "raise"
      THEN [table |-> price, events |-> gate, result |-> FALSE]
      ELSE [table |-> saved.table, events |-> gate \o fetch \o saved.events,
            result |-> ~saved.raised]

\* get_latest_dividend_date: the latest ex_date of the table, None (NaT here)
\* when the table is missing, empty or unreadable.
GetLatestDividendDate(dividend, read_ok) ==
  LET ex_dates == {k[1] : k \in {x \in DividendKeys : dividend.rows[x] > 0}}
  IN  IF dividend.exists /\ read_ok /\ ex_dates # {} THEN MaxOf(ex_dates) ELSE NaT

\* run_dividend_only_collection(target_date): incremental from the day after
\* the latest stored ex_date, 400 days back on the first collection.
RunDividendOnlyCollection(dividend, target_date, in) ==
  LET latest_date == GetLatestDividendDate(dividend, in.open_ok)
      since == IF latest_date # NaT THEN latest_date + 1 ELSE target_date - 400
      dividend_events_df == DividendEvents(in.history, since, target_date, target_date)
      fetch_div == <<StoreEvent("fetch_div", target_date, dividend_events_df # {})>>
      saved == SaveDividendEventsToDelta(dividend, dividend_events_df, target_date, in)
  IN  IF in.constituents = "raise"
      THEN [table |-> dividend, events |-> <<>>, result |-> FALSE]
      ELSE IF latest_date # NaT /\ since > target_date
      THEN [table |-> dividend, events |-> <<>>, result |-> TRUE]
      ELSE [table |-> saved.table, events |-> fetch_div \o saved.events,
            result |-> ~saved.raised]

\* run_full_collection(target_date): prices, then dividends, and the date
\* succeeds when both did.
RunFullCollection(price, dividend, target_date, in) ==
  LET p == RunPriceOnlyCollection(price, target_date, in)
      v == RunDividendOnlyCollection(dividend, target_date, in)
  IN  CollectionResult(p.table, v.table, p.events \o v.events,
                       ~p.result \/ ~v.result, p.result /\ v.result)

------------------------------------------------------------------------------
\* Price collection per ticker.  outcome[ticker] is what the provider gives for
\* the ticker: rows with prices ("data"), rows whose Close is all NaN ("nan"),
\* no rows ("empty"), or an exception ("raise").

PriceTickers == {"A", "B", "C"}
FetchOutcomes == {"data", "nan", "empty", "raise"}

DistinctSeqs(S) == {q \in SeqsUpTo(S, Cardinality(S)) : \A i, j \in DOMAIN q : i # j => q[i] # q[j]}

NoPrices == [data |-> <<>>, successful |-> <<>>, failed |-> <<>>, fetched |-> <<>>]

JoinPrices(a, b) ==
  [data |-> a.data \o b.data, successful |-> a.successful \o b.successful,
   failed |-> a.failed \o b.failed, fetched |-> a.fetched \o b.fetched]

\* One pass of the try block of the ticker loop: usable decides between the
\* successful and the failed list; an exception lands in the failed list.
FetchTicker(ticker, usable) ==
  [data |-> IF usable THEN <<ticker>> ELSE <<>>,
   successful |-> IF usable THEN <<ticker>> ELSE <<>>,
   failed |-> IF usable THEN <<>> ELSE <<ticker>>,
   fetched |-> <<ticker>>]

RECURSIVE CollectBatchPriceData_StopOnRaise(_, _)
\* Mutant of CollectBatchPriceData: an exception ends the batch.
CollectBatchPriceData_StopOnRaise(batch_tickers, outcome) ==
  IF batch_tickers = <<>> THEN NoPrices
  ELSE IF outcome[Head(batch_tickers)] = "raise"
  THEN FetchTicker(Head(batch_tickers), FALSE)
  ELSE JoinPrices(FetchTicker(Head(batch_tickers),
                              outcome[Head(batch_tickers)] \in {"data", "nan"}),
                  CollectBatchPriceData_StopOnRaise(Tail(batch_tickers), outcome))

RECURSIVE CollectBatchPriceData(_, _)
\* _collect_batch_price_data: a ticker is successful when hist is not empty.
CollectBatchPriceData(batch_tickers, outcome) ==
  IF batch_tickers = <<>> THEN NoPrices
  ELSE JoinPrices(FetchTicker(Head(batch_tickers),
                              outcome[Head(batch_tickers)] \in {"data", "nan"}),
                  CollectBatchPriceData(Tail(batch_tickers), outcome))

RECURSIVE GetDailyDataForTickers(_, _)
\* get_daily_data_for_tickers: a ticker is successful when hist is not empty
\* and has a Close that is not NaN.
GetDailyDataForTickers(tickers, outcome) ==
  IF tickers = <<>> THEN NoPrices
  ELSE JoinPrices(FetchTicker(Head(tickers), outcome[Head(tickers)] = "data"),
                  GetDailyDataForTickers(Tail(tickers), outcome))

\* tickers[batch_num:batch_num + batch_size]
Batch(tickers, batch_num, batch_size) ==
  SubSeq(tickers, batch_num + 1,
         IF batch_num + batch_size < Len(tickers) THEN batch_num + batch_size
         ELSE Len(tickers))

RECURSIVE PriceBatches(_, _, _, _, _)
\* for batch_num in range(batch_num, len(tickers), batch_size)
PriceBatches(use_pit, tickers, batch_num, batch_size, outcome) ==
  IF batch_num >= Len(tickers) THEN NoPrices
  ELSE JoinPrices(
         IF use_pit THEN CollectBatchPriceData(Batch(tickers, batch_num, batch_size), outcome)
         ELSE GetDailyDataForTickers(Batch(tickers, batch_num, batch_size), outcome),
         PriceBatches(use_pit, tickers, batch_num + batch_size, batch_size, outcome))

\* get_price_data_for_date (point-in-time path).
GetPriceDataForDate(tickers, batch_size, outcome) ==
  PriceBatches(TRUE, tickers, 0, batch_size, outcome)

\* The batch loop of run_price_only_collection (generic path).
CollectPriceBatches(tickers, batch_size, outcome) ==
  PriceBatches(FALSE, tickers, 0, batch_size, outcome)

------------------------------------------------------------------------------
\* Bronze backfill: run_point_in_time_backfill (use_pit) and
\* BronzeLayerOrchestrator.run_bronze_backfill, which differ in the per-date
\* collection they call.

\* What one date's collection meets.  The price counts are per ten tickers.
FineDate ==
  [constituents |-> "tickers", successful |-> 10, failed |-> 0, history |-> {},
   gate_ok |-> TRUE, open_ok |-> TRUE, write_ok |-> TRUE, raises |-> FALSE]

BackfillInputs ==
  { FineDate,
    [FineDate EXCEPT !.history = {0}],
    [FineDate EXCEPT !.successful = 8, !.failed = 2],
    [FineDate EXCEPT !.successful = 0, !.failed = 10],
    [FineDate EXCEPT !.constituents = "raise", !.successful = 0],
    [FineDate EXCEPT !.constituents = "empty", !.successful = 0],
    [FineDate EXCEPT !.write_ok = FALSE],
    [FineDate EXCEPT !.gate_ok = FALSE],
    [FineDate EXCEPT !.open_ok = FALSE],
    [FineDate EXCEPT !.raises = TRUE] }

NoRun ==
  [use_pit |-> FALSE, pc |-> "idle", start_date |-> 0, end_date |-> 0,
   date_list |-> <<>>, i |-> 1, attempted |-> <<>>, successful_dates |-> <<>>,
   failed_dates |-> <<>>, returned |-> "none", written |-> {}, runs |-> 0]

\* The dates that have a row in the price table.
WrittenDates(price) == {d \in Days : price.rows[d] > 0}

\* The date loop is entered: total_dates == 0 returns True at once.  written
\* keeps the dates the price table held when the run began.
EnterBackfill(run, price, use_pit, start_date, end_date) ==
  LET date_list == DateList(start_date, end_date)
  IN  [use_pit |-> use_pit, pc |-> IF Len(date_list) = 0 THEN "done" ELSE "loop",
       start_date |-> start_date, end_date |-> end_date, date_list |-> date_list,
       i |-> 1, attempted |-> <<>>, successful_dates |-> <<>>, failed_dates |-> <<>>,
       returned |-> IF Len(date_list) = 0 THEN "true" ELSE "none",
       written |-> WrittenDates(price), runs |-> run.runs + 1]

\* Mutant of AfterDate: a date that did not succeed is taken again.
AfterDate_RetryFailed(i, outcome) == IF outcome = "true" THEN i + 1 ELSE i

\* enumerate(date_list, 1): the loop goes on to the next date after success,
\* after failure and after an exception (continue).
AfterDate(i, outcome) == i + 1

\* failed_dates.append((target_date, error)) of the two failure branches.
FailedEntries(failed_dates, target_date, outcome) ==
  IF outcome = "false"
  THEN Append(failed_dates, [date |-> target_date, error |-> "collection failed"])
  ELSE IF outcome = "raise"
  THEN Append(failed_dates, [date |-> target_date, error |-> "str(e)"])
  ELSE failed_dates

\* Mutant of BackfillResult: the run succeeds when some date did.
BackfillResult_AnySuccess(successful_dates, failed_dates) == Len(successful_dates) > 0

\* return len(failed_dates) == 0
BackfillResult(successful_dates, failed_dates) == Len(failed_dates) = 0

\* One pass of the date loop on the state st = [run, price, dividend, events].
BackfillDateStep(st, in) ==
  LET run == st.run
      target_date == run.date_list[run.i]
      c == IF in.raises THEN CollectionResult(st.price, st.dividend, <<>>, TRUE, FALSE)
           ELSE IF run.use_pit
           THEN RunPointInTimeCollection(st.price, st.dividend, target_date, in)
           ELSE RunFullCollection(st.price, st.dividend, target_date, in)
      outcome == IF in.raises THEN "raise" ELSE IF c.result THEN "true" ELSE "false"
  IN  [run |-> [run EXCEPT
                  !.i = AfterDate(run.i, outcome),
                  !.attempted = Append(@, target_date),
                  !.successful_dates = IF outcome = "true" THEN Append(@, target_date) ELSE @,
                  !.failed_dates = FailedEntries(@, target_date, outcome)],
       price |-> c.price, dividend |-> c.dividend, events |-> st.events \o c.events]

\* The summary after the loop.
BackfillSummary(run) ==
  [run EXCEPT !.pc = "done",
              !.returned = IF BackfillResult(run.successful_dates, run.failed_dates)
                           THEN "true" ELSE "false"]

RECURSIVE BackfillLoop(_, _)
\* The whole loop with every date meeting the same `in`, and the summary.
BackfillLoop(st, in) ==
  IF st.run.pc = "done" THEN st
  ELSE IF st.run.i > Len(st.run.date_list)
  THEN [st EXCEPT !.run = BackfillSummary(st.run)]
  ELSE BackfillLoop(BackfillDateStep(st, in), in)

NoCollection ==
  [op |-> "none", use_pit |-> FALSE, target_date |-> 0, in |-> FineDate,
   raised |-> FALSE, result |-> FALSE,
   tickers |-> <<>>, batch_size |-> 1, outcome |-> <<>>, prices |-> NoPrices]

NoWorkers == <<>>

\* No bronze call has been made on a store that has no table yet.
InitBronzeIdle ==
  /\ bronze_price = NoPriceTable
  /\ bronze_dividend = NoDividendTable
  /\ events = <<>>
  /\ bronze_run = NoRun
  /\ collection = NoCollection
  /\ workers = NoWorkers

\* Silver dividend-metrics rows: (date, ticker), with the number of copies
\* the table holds of each.
SilverTickers == {"A", "B"}
SilverKeys == Days \X SilverTickers
EmptySilverRows == [k \in SilverKeys |-> 0]
NoSilverTable == [exists |-> FALSE, rows |-> EmptySilverRows]

NoSave ==
  [op |-> "none", target_date |-> 0, metrics |-> {}, read_ok |-> TRUE, write_ok |-> TRUE,
   before |-> NoSilverTable, mode |-> "none", wrote |-> FALSE, raised |-> FALSE]

NoDates ==
  [op |-> "none", start_date |-> 0, end_date |-> 0, include_weekends |-> FALSE,
   result |-> <<>>]

NoFetch ==
  [pc |-> "idle", impl |-> "none", max_retries |-> 0, i |-> 0, attempts |-> <<>>,
   result |-> "none"]

InitSideIdle ==
  /\ silver_dividend_metrics = NoSilverTable
  /\ silver_save = NoSave
  /\ dates_call = NoDates
  /\ wiki_fetch = NoFetch

NoParams ==
  [start_date |-> 0, end_date |-> 0, skip_gold |-> FALSE, use_pit |-> FALSE,
   setup_membership |-> FALSE, use_manual_membership |-> FALSE]

InitBackfillIdle ==
  /\ pc = "idle"
  /\ params = NoParams
  /\ trace = <<>>
  /\ returned = "none"

\* The stores before a call: no ledger table, an empty one, or one holding
\* any list of events earlier save_membership_changes calls left there.
Init ==
  /\ \/ membership_changes = [exists |-> FALSE, rows |-> <<>>]
     \/ \E s \in SeqsUpTo(AllEvents, MaxLedger) :
          /\ Canonical(s)
          /\ membership_changes = [exists |-> TRUE, rows |-> s]
  /\ membership_daily = [exists |-> FALSE, rows |-> {}]
  /\ call = NoCall
  /\ InitBackfillIdle
  /\ InitBronzeIdle
  /\ InitSideIdle

\* Outcomes of the external calls of one generate_daily_membership.
GenerateOutcomes ==
  {[read_ok |-> FALSE, primary |-> "symbol", alt |-> "symbol", page |-> {}]}
  \cup {[read_ok |-> TRUE, primary |-> src.primary, alt |-> src.alt, page |-> src.page]
        : src \in SourceOutcomes}

\* A call of generate_daily_membership(start_date, end_date).
GenerateCall ==
  /\ call.op = "none"
  /\ \E f \in GenerateOutcomes, start_date \in Days, end_date \in Days :
       LET gen == GenerateDailyMembership(membership_changes, f.read_ok, f.primary,
                                          f.alt, f.page, start_date, end_date)
       IN  call' = [NoCall EXCEPT
                 !.op = "generate", !.ledger = membership_changes.rows,
                 !.readable = membership_changes.exists /\ f.read_ok,
                 !.gen_reached = TRUE,
                 !.primary = f.primary, !.alt = f.alt, !.page = f.page,
                 !.start_date = start_date, !.end_date = end_date,
                 !.raised = gen.raised, !.gen_raised = gen.raised, !.df = gen.df]
  /\ UNCHANGED <<membership_changes, membership_daily>>
  /\ UNCHANGED backfill_vars
  /\ UNCHANGED bronze_vars
  /\ UNCHANGED side_vars

\* Outcomes of the external calls of one run_membership_setup, one for each
\* path of the run: a call the run does not reach has a fixed outcome.
SetupOutcomes ==
  LET base == [read_ok |-> TRUE, write_ok |-> TRUE, gen_read_ok |-> TRUE,
               primary |-> "symbol", alt |-> "symbol", page |-> {},
               daily_write_ok |-> TRUE]
  IN  UNION {
        {[base EXCEPT !.read_ok = r, !.write_ok = FALSE],
         [base EXCEPT !.read_ok = r, !.gen_read_ok = FALSE],
         [base EXCEPT !.read_ok = r, !.primary = "nosymbol"],
         [base EXCEPT !.read_ok = r, !.primary = "raise", !.alt = "fail"]}
        \cup {[base EXCEPT !.read_ok = r, !.page = p, !.daily_write_ok = d]
              : p \in SUBSET Tickers, d \in BOOLEAN}
        : r \in BOOLEAN}

\* A call of run_membership_setup(start_date, end_date, use_manual).
SetupCall ==
  /\ call.op = "none"
  /\ \E changes_df \in {ManualChanges} \cup ScrapedChanges, f \in SetupOutcomes,
        start_date \in Days, end_date \in Days :
       LET run == RunMembershipSetup(membership_changes, membership_daily, changes_df,
                                     f, start_date, end_date)
       IN  /\ membership_changes' = run.changes
           /\ membership_daily' = run.daily
           /\ call' = [NoCall EXCEPT
                 !.op = "setup", !.changes = changes_df, !.ledger = run.changes.rows,
                 !.readable = run.changes.exists /\ f.gen_read_ok,
                 !.gen_reached = run.gen_reached,
                 !.primary = f.primary, !.alt = f.alt, !.page = f.page,
                 !.start_date = start_date, !.end_date = end_date,
                 !.raised = run.raised, !.gen_raised = run.gen.raised, !.df = run.gen.df,
                 !.wrote_daily = run.wrote_daily]
  /\ UNCHANGED backfill_vars
  /\ UNCHANGED bronze_vars
  /\ UNCHANGED side_vars

\* The stores before a setup: no ledger table, an empty one, or one holding
\* events of earlier calls.
InitSetup ==
  /\ \/ membership_changes = [exists |-> FALSE, rows |-> <<>>]
     \/ \E s \in SeqsUpTo(SampleEvents, MaxLedger) :
          membership_changes = [exists |-> TRUE, rows |-> s]
  /\ membership_daily = [exists |-> FALSE, rows |-> {}]
  /\ call = NoCall
  /\ InitBackfillIdle
  /\ InitBronzeIdle
  /\ InitSideIdle

NextSetup == GenerateCall \/ SetupCall

SpecSetup == InitSetup /\ [][NextSetup]_vars

Next == GenerateCall

Spec == Init /\ [][Next]_vars

------------------------------------------------------------------------------
\* A call of save_membership_changes(changes_df).
SaveCall ==
  \E changes_df \in SeqsUpTo(SampleEvents, MaxBatch), read_ok \in BOOLEAN,
     write_ok \in BOOLEAN :
    LET saved == SaveMembershipChanges(membership_changes, changes_df, read_ok, write_ok)
    IN  /\ Len(saved.table.rows) <= MaxStored
        /\ membership_changes' = saved.table
        /\ call' = [NoCall EXCEPT
              !.op = "save", !.changes = changes_df,
              !.readable = membership_changes.exists /\ read_ok,
              !.raised = saved.raised, !.wrote = saved.wrote]
        /\ UNCHANGED membership_daily
        /\ UNCHANGED backfill_vars
        /\ UNCHANGED bronze_vars
        /\ UNCHANGED side_vars

\* Before the first call the ledger table does not exist, or exists empty.
InitLedger ==
  /\ membership_changes \in {[exists |-> FALSE, rows |-> <<>>],
                             [exists |-> TRUE, rows |-> <<>>]}
  /\ membership_daily = [exists |-> FALSE, rows |-> {}]
  /\ call = NoCall
  /\ InitBackfillIdle
  /\ InitBronzeIdle
  /\ InitSideIdle

NextLedger == SaveCall

SpecLedger == InitLedger /\ [][NextLedger]_vars

------------------------------------------------------------------------------
\* run_full_backfill: where the run goes after each step returned.
\* Mutant of AfterMembership: the check of membership_success is missing.
AfterMembership_NoHalt(membership_success) == "bronze"

AfterMembership(membership_success) ==
  IF ~membership_success THEN "return_false" ELSE "bronze"

\* Mutant of AfterBronze: the check of bronze_success is missing.
AfterBronze_NoHalt(bronze_success) == "silver"

AfterBronze(bronze_success) ==
  IF ~bronze_success THEN "return_false" ELSE "silver"

AfterSilver(silver_success, skip_gold) ==
  IF ~silver_success THEN "return_false"
  ELSE IF ~skip_gold THEN "gold" ELSE "summary"

\* return bronze_success and silver_success and gold_success
FullResult(bronze_success, silver_success, gold_success) ==
  bronze_success /\ silver_success /\ gold_success

\* One step returned `success` and the run goes to `next`; failed_dates are the
\* dates the layer under the step logged as failed.
AdvanceWith(step, outcome, success, failed_dates, next) ==
  /\ trace' = Append(trace, [step |-> step, outcome |-> outcome, success |-> success,
                             failed_dates |-> failed_dates])
  /\ IF next = "return_false"
     THEN pc' = "done" /\ returned' = "false"
     ELSE pc' = next /\ returned' = returned

Advance(step, outcome, success, next) == AdvanceWith(step, outcome, success, {}, next)

\* run_full_backfill is called; the date range is resolved.
StartRun ==
  /\ pc = "idle"
  /\ \E start_date \in Days, end_date \in Days, skip_gold \in BOOLEAN,
        use_pit \in BOOLEAN, setup_membership \in BOOLEAN,
        use_manual_membership \in BOOLEAN :
       params' = [start_date |-> start_date, end_date |-> end_date,
                  skip_gold |-> skip_gold, use_pit |-> use_pit,
                  setup_membership |-> setup_membership,
                  use_manual_membership |-> use_manual_membership]
  /\ pc' = IF params'.use_pit /\ params'.setup_membership THEN "setup" ELSE "bronze"
  /\ UNCHANGED <<trace, returned>>
  /\ UNCHANGED membership_vars
  /\ UNCHANGED bronze_vars
  /\ UNCHANGED side_vars

\* Step 0: setup_membership_tracking, which returns False when
\* run_membership_setup raises.
SetupStep ==
  /\ pc = "setup"
  /\ \E changes_df \in IF params.use_manual_membership THEN {ManualChanges}
                       ELSE ScrapedChanges,
        f \in SetupOutcomes :
       LET run == RunMembershipSetup(membership_changes, membership_daily, changes_df,
                                     f, params.start_date, params.end_date)
       IN  /\ membership_changes' = run.changes
           /\ membership_daily' = run.daily
           /\ Advance("setup", IF run.raised THEN "raise" ELSE "true", ~run.raised,
                      AfterMembership(~run.raised))
  /\ UNCHANGED <<call, params>>
  /\ UNCHANGED bronze_vars
  /\ UNCHANGED side_vars

\* Step 1: run_bronze_backfill, which returns what the bronze backfill of the
\* chosen path returned, or False when that call raised.
BronzeStep ==
  /\ pc = "bronze"
  /\ \/ \E in \in BackfillInputs :
          LET st == BackfillLoop([run |-> EnterBackfill(bronze_run, bronze_price,
                                                       params.use_pit,
                                                       params.start_date, params.end_date),
                                  price |-> bronze_price, dividend |-> bronze_dividend,
                                  events |-> events], in)
              success == st.run.returned = "true"
          IN  /\ bronze_run' = st.run
              /\ bronze_price' = st.price
              /\ bronze_dividend' = st.dividend
              /\ events' = st.events
              /\ Advance("bronze", IF success THEN "true" ELSE "false", success,
                         AfterBronze(success))
     \/ /\ Advance("bronze", "raise", FALSE, AfterBronze(FALSE))
        /\ UNCHANGED <<bronze_run, bronze_price, bronze_dividend, events>>
  /\ UNCHANGED <<params, collection, workers>>
  /\ UNCHANGED membership_vars
  /\ UNCHANGED side_vars

\* SilverLayerDelta.run_silver_backfill: every date to process goes through
\* run_silver_processing inside a try; a date that raises is appended to
\* failed_dates and the loop continues; the function then returns None.
SilverLayerBackfill(dates_to_process, raising_dates) ==
  [raised |-> FALSE, failed_dates |-> dates_to_process \cap raising_dates]

\* Step 2: run_silver_backfill, which returns True unless the call of the
\* silver layer raised.
SilverStep ==
  /\ pc = "silver"
  /\ \/ \E dates_to_process \in SUBSET Rows(DateList(params.start_date, params.end_date)) :
          \E raising_dates \in SUBSET dates_to_process :
            LET silver == SilverLayerBackfill(dates_to_process, raising_dates)
            IN  AdvanceWith("silver", "true", ~silver.raised, silver.failed_dates,
                            AfterSilver(~silver.raised, params.skip_gold))
     \/ Advance("silver", "raise", FALSE, AfterSilver(FALSE, params.skip_gold))
  /\ UNCHANGED params
  /\ UNCHANGED membership_vars
  /\ UNCHANGED bronze_vars
  /\ UNCHANGED side_vars

\* Step 3: run_gold_backfill, which returns True when its try body ran
\* through and False from its except branch; run_full_backfill goes on to the
\* summary in both cases.
GoldStep ==
  /\ pc = "gold"
  /\ \E outcome \in {"true", "raise"} :
       Advance("gold", outcome, outcome = "true", "summary")
  /\ UNCHANGED params
  /\ UNCHANGED membership_vars
  /\ UNCHANGED bronze_vars
  /\ UNCHANGED side_vars

StepSuccess(step) ==
  \E i \in DOMAIN trace : trace[i].step = step /\ trace[i].success

\* Step 4: the summary and the return value.
SummaryStep ==
  /\ pc = "summary"
  /\ pc' = "done"
  /\ returned' = IF FullResult(StepSuccess("bronze"), StepSuccess("silver"),
                               params.skip_gold \/ StepSuccess("gold"))
                 THEN "true" ELSE "false"
  /\ UNCHANGED <<trace, params>>
  /\ UNCHANGED membership_vars
  /\ UNCHANGED bronze_vars
  /\ UNCHANGED side_vars

InitBackfill ==
  /\ membership_changes \in {[exists |-> FALSE, rows |-> <<>>],
                             [exists |-> TRUE, rows |-> <<>>]}
  /\ membership_daily = [exists |-> FALSE, rows |-> {}]
  /\ call = NoCall
  /\ InitBackfillIdle
  /\ InitBronzeIdle
  /\ InitSideIdle

NextBackfill ==
  StartRun \/ SetupStep \/ BronzeStep \/ SilverStep \/ GoldStep \/ SummaryStep

SpecBackfill == InitBackfill /\ [][NextBackfill]_vars

------------------------------------------------------------------------------
\* The bronze backfill of either path, one date of the loop per step, run
\* again over the store the earlier run left.

StartBronzeBackfill ==
  /\ bronze_run.pc \in {"idle", "done"}
  /\ bronze_run.runs < MaxRuns
  /\ \E use_pit \in BOOLEAN, start_date \in Days, end_date \in Days :
       bronze_run' = EnterBackfill(bronze_run, bronze_price, use_pit, start_date, end_date)
  /\ events' = <<>>
  /\ UNCHANGED <<bronze_price, bronze_dividend, collection, workers>>
  /\ UNCHANGED membership_vars
  /\ UNCHANGED backfill_vars
  /\ UNCHANGED side_vars

BackfillDate ==
  /\ bronze_run.pc = "loop"
  /\ bronze_run.i <= Len(bronze_run.date_list)
  /\ \E in \in BackfillInputs :
       LET st == BackfillDateStep([run |-> bronze_run, price |-> bronze_price,
                                   dividend |-> bronze_dividend, events |-> events], in)
       IN  /\ bronze_run' = st.run
           /\ bronze_price' = st.price
           /\ bronze_dividend' = st.dividend
           /\ events' = st.events
  /\ UNCHANGED <<collection, workers>>
  /\ UNCHANGED membership_vars
  /\ UNCHANGED backfill_vars
  /\ UNCHANGED side_vars

FinishBronzeBackfill ==
  /\ bronze_run.pc = "loop"
  /\ bronze_run.i > Len(bronze_run.date_list)
  /\ bronze_run' = BackfillSummary(bronze_run)
  /\ UNCHANGED <<bronze_price, bronze_dividend, events, collection, workers>>
  /\ UNCHANGED membership_vars
  /\ UNCHANGED backfill_vars
  /\ UNCHANGED side_vars

InitBronze ==
  /\ membership_changes = [exists |-> FALSE, rows |-> <<>>]
  /\ membership_daily = [exists |-> FALSE, rows |-> {}]
  /\ call = NoCall
  /\ InitBackfillIdle
  /\ InitBronzeIdle
  /\ InitSideIdle

NextBronze == StartBronzeBackfill \/ BackfillDate \/ FinishBronzeBackfill

SpecBronze == InitBronze /\ [][NextBronze]_vars

------------------------------------------------------------------------------
\* Concurrent invocations of run_price_only_collection: each one is a thread
\* of its own over the shared price table, and each read or write of the table
\* is one step.  No step takes a lock.

Worker(target_date) ==
  [date |-> target_date, pc |-> "gate", seen_first |-> FALSE, seen_save |-> FALSE,
   has_data |-> FALSE, mode |-> "none", wrote |-> FALSE, returned |-> "none"]

\* What an invocation of run_price_only_collection leaves alone.
RaceFrame ==
  /\ UNCHANGED <<bronze_dividend, events, bronze_run, collection>>
  /\ UNCHANGED membership_vars
  /\ UNCHANGED backfill_vars
  /\ UNCHANGED side_vars

\* Mutant of PassesGate: the answer of the gate is not looked at.
PassesGate_Ignored(has_existing_data) == TRUE

\* if has_existing_data: return  -- the invocation goes on when the gate said
\* the date is not there.
PassesGate(has_existing_data) == ~has_existing_data

\* Line 66: check_existing_data at the head of run_price_only_collection.
GateStep(w) ==
  /\ workers[w].pc = "gate"
  /\ LET existing == CheckExistingData(bronze_price, workers[w].date, TRUE)
     IN  workers' = [workers EXCEPT
                       ![w].seen_first = existing,
                       ![w].pc = IF PassesGate(existing) THEN "fetch" ELSE "done",
                       ![w].returned = IF PassesGate(existing) THEN "none" ELSE "true"]
  /\ UNCHANGED bronze_price
  /\ RaceFrame

\* Lines 77-108: the tickers are fetched; with no usable ticker nothing is
\* saved.
FetchStep(w) ==
  /\ workers[w].pc = "fetch"
  /\ \E has_data \in BOOLEAN :
       workers' = [workers EXCEPT
                     ![w].has_data = has_data,
                     ![w].pc = IF has_data THEN "save_gate" ELSE "done",
                     ![w].returned = IF has_data THEN "none" ELSE "true"]
  /\ UNCHANGED bronze_price
  /\ RaceFrame

\* data_storage.py line 77: check_existing_data inside save_price_data_to_delta.
SaveGateStep(w) ==
  /\ workers[w].pc = "save_gate"
  /\ LET existing == CheckExistingData(bronze_price, workers[w].date, TRUE)
     IN  workers' = [workers EXCEPT
                       ![w].seen_save = existing,
                       ![w].pc = IF PassesGate(existing) THEN "open" ELSE "done",
                       ![w].returned = IF PassesGate(existing) THEN "none" ELSE "true"]
  /\ UNCHANGED bronze_price
  /\ RaceFrame

\* data_storage.py lines 88-95: DeltaTable(path) decides the write mode.
OpenStep(w) ==
  /\ workers[w].pc = "open"
  /\ workers' = [workers EXCEPT
                   ![w].mode = IF bronze_price.exists THEN "append" ELSE "overwrite",
                   ![w].pc = "write"]
  /\ UNCHANGED bronze_price
  /\ RaceFrame

\* data_storage.py lines 107-118: write_deltalake.
WriteStep(w) ==
  /\ workers[w].pc = "write"
  /\ bronze_price' = WritePrice(bronze_price, workers[w].mode, workers[w].date)
  /\ workers' = [workers EXCEPT ![w].wrote = TRUE, ![w].pc = "done",
                                ![w].returned = "true"]
  /\ RaceFrame

\* The dates the concurrent invocations are called for; none is in the table.
RaceDates == {d \in Days : d >= 1 /\ Weekday(d) < 5}

\* Two invocations are started; the table is missing, or holds day 0.
InitRace ==
  /\ membership_changes = [exists |-> FALSE, rows |-> <<>>]
  /\ membership_daily = [exists |-> FALSE, rows |-> {}]
  /\ call = NoCall
  /\ InitBackfillIdle
  /\ bronze_price \in {NoPriceTable, WritePrice(NoPriceTable, "overwrite", 0)}
  /\ bronze_dividend = NoDividendTable
  /\ events = <<>>
  /\ bronze_run = NoRun
  /\ collection = NoCollection
  /\ workers \in [1 .. 2 -> {Worker(d) : d \in RaceDates}]
  /\ InitSideIdle

NextRace ==
  \E w \in DOMAIN workers :
    GateStep(w) \/ FetchStep(w) \/ SaveGateStep(w) \/ OpenStep(w) \/ WriteStep(w)

SpecRace == InitRace /\ [][NextRace]_vars

------------------------------------------------------------------------------
\* Single calls of the collection of one date.

\* What run_point_in_time_collection can meet: every split of up to
\* MaxTickers constituents into tickers with and without price data, with a
\* store write that works or raises; no constituents; a failed lookup.
CollectionInputs ==
  {[FineDate EXCEPT !.successful = c[1], !.failed = c[2], !.write_ok = c[3]] :
     c \in {x \in (0 .. MaxTickers) \X (0 .. MaxTickers) \X BOOLEAN :
              x[1] + x[2] \in 1 .. MaxTickers}}
  \cup {[FineDate EXCEPT !.constituents = c, !.successful = 0] : c \in {"raise", "empty"}}

\* get_price_data_for_date, or the batch loop of run_price_only_collection,
\* is called with a list of distinct tickers.
CollectPricesCall ==
  /\ collection.op = "none"
  /\ \E use_pit \in BOOLEAN, tickers \in DistinctSeqs(PriceTickers),
        batch_size \in 1 .. MaxBatchSize, outcome \in [PriceTickers -> FetchOutcomes] :
       collection' = [NoCollection EXCEPT
                        !.op = "prices", !.use_pit = use_pit, !.tickers = tickers,
                        !.batch_size = batch_size, !.outcome = outcome,
                        !.prices = IF use_pit
                                   THEN GetPriceDataForDate(tickers, batch_size, outcome)
                                   ELSE CollectPriceBatches(tickers, batch_size, outcome)]
  /\ UNCHANGED <<bronze_price, bronze_dividend, events, bronze_run, workers>>
  /\ UNCHANGED membership_vars
  /\ UNCHANGED backfill_vars
  /\ UNCHANGED side_vars

\* run_point_in_time_collection(target_date) is called.
PointInTimeCollectionCall ==
  /\ collection.op = "none"
  /\ \E target_date \in Days, in \in CollectionInputs :
       LET c == RunPointInTimeCollection(bronze_price, bronze_dividend, target_date, in)
       IN  /\ bronze_price' = c.price
           /\ bronze_dividend' = c.dividend
           /\ events' = c.events
           /\ collection' = [NoCollection EXCEPT
                                !.op = "pit", !.use_pit = TRUE, !.target_date = target_date,
                                !.in = in, !.raised = c.raised, !.result = c.result]
  /\ UNCHANGED <<bronze_run, workers>>
  /\ UNCHANGED membership_vars
  /\ UNCHANGED backfill_vars
  /\ UNCHANGED side_vars

\* run_price_only_collection(target_date) is called.
PriceOnlyCollectionCall ==
  /\ collection.op = "none"
  /\ \E target_date \in Days, in \in CollectionInputs :
       LET c == RunPriceOnlyCollection(bronze_price, target_date, in)
       IN  /\ bronze_price' = c.table
           /\ events' = c.events
           /\ collection' = [NoCollection EXCEPT
                                !.op = "price_only", !.target_date = target_date,
                                !.in = in, !.raised = ~c.result, !.result = c.result]
  /\ UNCHANGED <<bronze_dividend, bronze_run, workers>>
  /\ UNCHANGED membership_vars
  /\ UNCHANGED backfill_vars
  /\ UNCHANGED side_vars

\* The price table is missing, or holds day 0.
InitCollect ==
  /\ membership_changes = [exists |-> FALSE, rows |-> <<>>]
  /\ membership_daily = [exists |-> FALSE, rows |-> {}]
  /\ call = NoCall
  /\ InitBackfillIdle
  /\ bronze_price \in {NoPriceTable, WritePrice(NoPriceTable, "overwrite", 0)}
  /\ bronze_dividend = NoDividendTable
  /\ events = <<>>
  /\ bronze_run = NoRun
  /\ collection = NoCollection
  /\ workers = NoWorkers
  /\ InitSideIdle

NextCollect == CollectPricesCall \/ PointInTimeCollectionCall \/ PriceOnlyCollectionCall

SpecCollect == InitCollect /\ [][NextCollect]_vars

------------------------------------------------------------------------------
\* Daily membership as the bronze layer reads it: setups run one after the
\* other over the same store, and get_constituents_for_date looks a date up.

\* get_daily_membership: the rows of target_date; any exception of the read (a
\* missing table included) is swallowed and an empty DataFrame returned.
GetDailyMembership(table, target_date, read_ok) ==
  IF table.exists /\ read_ok THEN {r \in table.rows : r.date = target_date} ELSE {}

\* get_constituents_for_date.  first: the outcome of get_sp500_for_year in the
\* else branch; when that raises, the except branch calls get_sp500_for_year
\* once more (second), outside any try.
GetConstituentsForDate(table, target_date, read_ok, first, second) ==
  LET daily_membership == GetDailyMembership(table, target_date, read_ok)
      current_sp500 == GetSp500ForYear(first.primary, first.alt, first.page)
      again == GetSp500ForYear(second.primary, second.alt, second.page)
  IN  IF daily_membership # {}
      THEN [raised |-> FALSE,
            tickers |-> {r.ticker : r \in {x \in daily_membership : x.is_member}},
            fallback |-> FALSE, second_lookup |-> FALSE]
      ELSE IF ~current_sp500.raised
      THEN [raised |-> FALSE, tickers |-> current_sp500.symbols,
            fallback |-> TRUE, second_lookup |-> FALSE]
      ELSE [raised |-> again.raised, tickers |-> again.symbols,
            fallback |-> TRUE, second_lookup |-> TRUE]

\* The outcome written down for a get_sp500_for_year call that is not made.
NoLookup == [primary |-> "symbol", alt |-> "symbol", page |-> {}]

\* A call of get_constituents_for_date(target_date).
ConstituentsCall ==
  /\ call.op \in {"none", "setup"}
  /\ \E target_date \in Days, read_ok \in BOOLEAN, first \in SourceOutcomes,
     second \in SourceOutcomes :
    LET got == GetConstituentsForDate(membership_daily, target_date, read_ok, first, second)
    IN  /\ got.fallback \/ first = NoLookup
        /\ got.second_lookup \/ second = NoLookup
        /\ call' = [NoCall EXCEPT
              !.op = "constituents", !.target_date = target_date, !.read_ok = read_ok,
              !.primary = first.primary, !.alt = first.alt,
              !.page = IF got.second_lookup THEN second.page ELSE first.page,
              !.second = IF ~got.second_lookup THEN "none"
                         ELSE IF got.raised THEN "fail" ELSE "symbol",
              !.daily_before = membership_daily.rows, !.setups = call.setups,
              !.raised = got.raised, !.tickers = got.tickers]
        /\ UNCHANGED <<membership_changes, membership_daily>>
        /\ UNCHANGED backfill_vars
        /\ UNCHANGED bronze_vars
        /\ UNCHANGED side_vars

\* The events a setup of SpecDaily collects: the manual list, or a scrape
\* that parsed nothing.
DailySetupChanges ==
  {ManualChanges} \cup {s \in ScrapedChanges : Len(s) = 0}

\* Outcomes of the external calls of a setup of SpecDaily: every write and
\* read returns and the page lists p; or no source has a Symbol column; or
\* the write of the daily table raises.
DailySetupOutcomes ==
  {f \in SetupOutcomes :
     /\ f.read_ok /\ f.write_ok /\ f.gen_read_ok
     /\ f.primary # "nosymbol"
     /\ f.daily_write_ok \/ f.page = Tickers}

\* A call of run_membership_setup(start_date, end_date, use_manual) on the
\* stores earlier setups left.
MembershipSetupRun ==
  /\ call.op \in {"none", "setup"}
  /\ call.setups < MaxSetups
  /\ \E changes_df \in DailySetupChanges, f \in DailySetupOutcomes,
     start_date \in Days, end_date \in Days :
    LET run == RunMembershipSetup(membership_changes, membership_daily, changes_df,
                                  f, start_date, end_date)
    IN  /\ membership_changes' = run.changes
        /\ membership_daily' = run.daily
        /\ call' = [NoCall EXCEPT
              !.op = "setup", !.start_date = start_date, !.end_date = end_date,
              !.raised = run.raised, !.gen_reached = run.gen_reached,
              !.gen_raised = run.gen.raised, !.df = run.gen.df,
              !.wrote_daily = run.wrote_daily,
              !.daily_before = membership_daily.rows, !.setups = call.setups + 1]
        /\ UNCHANGED backfill_vars
        /\ UNCHANGED bronze_vars
        /\ UNCHANGED side_vars

\* Before the first setup neither membership table exists.
InitDaily ==
  /\ membership_changes = [exists |-> FALSE, rows |-> <<>>]
  /\ membership_daily = [exists |-> FALSE, rows |-> {}]
  /\ call = NoCall
  /\ InitBackfillIdle
  /\ InitBronzeIdle
  /\ InitSideIdle

NextDaily == MembershipSetupRun \/ ConstituentsCall

SpecDaily == InitDaily /\ [][NextDaily]_vars

------------------------------------------------------------------------------
\* Silver layer: save_dividend_metrics_to_delta.  metrics_df is the set of
\* tickers with a metrics row; every row carries date = target_date.

\* The rows of metrics_df as a table content.
MetricsRows(metrics_df, target_date) ==
  [k \in SilverKeys |-> IF k[1] = target_date /\ k[2] \in metrics_df THEN 1 ELSE 0]

\* existing_df[existing_df['date'] != target_date]
WithoutDate(rows, target_date) ==
  [k \in SilverKeys |-> IF k[1] = target_date THEN 0 ELSE rows[k]]

\* The mode the save chooses.  readable: DeltaTable(path).to_pandas() returned;
\* any exception there (a missing table included) selects "overwrite".
SilverWriteMode(readable, non_empty, has_existing_data) ==
  IF ~readable THEN "overwrite"
  ELSE IF non_empty /\ has_existing_data THEN "overwrite"
  ELSE "append"

\* save_dividend_metrics_to_delta.  write_ok: write_deltalake returned; its
\* exception is not caught.
SaveDividendMetricsToDelta(table, metrics_df, target_date, read_ok, write_ok) ==
  IF metrics_df = {}
  THEN [table |-> table, mode |-> "none", wrote |-> FALSE, raised |-> FALSE]
  ELSE LET readable == table.exists /\ read_ok
           non_empty == \E k \in SilverKeys : table.rows[k] > 0
           has_existing_data == \E k \in SilverKeys : k[1] = target_date /\ table.rows[k] > 0
           mode == SilverWriteMode(readable, non_empty, has_existing_data)
           new_rows == MetricsRows(metrics_df, target_date)
           kept == WithoutDate(table.rows, target_date)
           to_write == IF readable /\ mode = "overwrite"
                       THEN [k \in SilverKeys |-> kept[k] + new_rows[k]]
                       ELSE new_rows
           written == IF mode = "overwrite" THEN to_write
                      ELSE [k \in SilverKeys |-> table.rows[k] + to_write[k]]
       IN  IF write_ok
           THEN [table |-> [exists |-> TRUE, rows |-> written], mode |-> mode,
                 wrote |-> TRUE, raised |-> FALSE]
           ELSE [table |-> table, mode |-> mode, wrote |-> TRUE, raised |-> TRUE]

\* A call of save_dividend_metrics_to_delta(metrics_df, target_date).
SaveMetricsCall ==
  /\ \E metrics_df \in SUBSET SilverTickers, target_date \in Days, read_ok \in BOOLEAN,
        write_ok \in BOOLEAN :
       LET saved == SaveDividendMetricsToDelta(silver_dividend_metrics, metrics_df,
                                               target_date, read_ok, write_ok)
       IN  /\ silver_dividend_metrics' = saved.table
           /\ silver_save' = [op |-> "save", target_date |-> target_date,
                              metrics |-> metrics_df, read_ok |-> read_ok,
                              write_ok |-> write_ok, before |-> silver_dividend_metrics,
                              mode |-> saved.mode, wrote |-> saved.wrote,
                              raised |-> saved.raised]
  /\ UNCHANGED <<dates_call, wiki_fetch>>
  /\ UNCHANGED membership_vars
  /\ UNCHANGED backfill_vars
  /\ UNCHANGED bronze_vars

\* Before the first save the silver table does not exist.
InitSilver ==
  /\ membership_changes = [exists |-> FALSE, rows |-> <<>>]
  /\ membership_daily = [exists |-> FALSE, rows |-> {}]
  /\ call = NoCall
  /\ InitBackfillIdle
  /\ InitBronzeIdle
  /\ InitSideIdle

NextSilver == SaveMetricsCall

SpecSilver == InitSilver /\ [][NextSilver]_vars

------------------------------------------------------------------------------
\* The trading-day enumerations.

\* Mutant of IsTradingDay: Saturday counts as a trading day.
IsTradingDay_SaturdayOpen(d) == Weekday(d) < 6

\* DataValidator.is_trading_day
IsTradingDay(d) == Weekday(d) < 5

RECURSIVE GenerateTradingDates(_, _)
\* BackfillValidator.generate_trading_dates: the while loop from current_date.
GenerateTradingDates(current_date, end_date) ==
  IF current_date > end_date THEN <<>>
  ELSE (IF IsTradingDay(current_date) THEN <<current_date>> ELSE <<>>)
       \o GenerateTradingDates(current_date + 1, end_date)

RECURSIVE GenerateDateList(_, _, _)
\* BackfillOrchestrator.generate_date_list: the while loop from current_date.
GenerateDateList(current_date, end_date, include_weekends) ==
  IF current_date > end_date THEN <<>>
  ELSE (IF include_weekends \/ Weekday(current_date) < 5 THEN <<current_date>> ELSE <<>>)
       \o GenerateDateList(current_date + 1, end_date, include_weekends)

\* A call of generate_trading_dates(start_date, end_date).
GenerateTradingDatesCall ==
  /\ dates_call.op = "none"
  /\ \E start_date \in 0 .. MaxDate, end_date \in 0 .. MaxDate :
       dates_call' = [op |-> "generate_trading_dates", start_date |-> start_date,
                      end_date |-> end_date, include_weekends |-> FALSE,
                      result |-> GenerateTradingDates(start_date, end_date)]
  /\ UNCHANGED <<silver_dividend_metrics, silver_save, wiki_fetch>>
  /\ UNCHANGED membership_vars
  /\ UNCHANGED backfill_vars
  /\ UNCHANGED bronze_vars

\* A call of generate_date_list(start_date, end_date, include_weekends).
GenerateDateListCall ==
  /\ dates_call.op = "none"
  /\ \E start_date \in 0 .. MaxDate, end_date \in 0 .. MaxDate,
        include_weekends \in BOOLEAN :
       dates_call' = [op |-> "generate_date_list", start_date |-> start_date,
                      end_date |-> end_date, include_weekends |-> include_weekends,
                      result |-> GenerateDateList(start_date, end_date, include_weekends)]
  /\ UNCHANGED <<silver_dividend_metrics, silver_save, wiki_fetch>>
  /\ UNCHANGED membership_vars
  /\ UNCHANGED backfill_vars
  /\ UNCHANGED bronze_vars

InitDates ==
  /\ membership_changes = [exists |-> FALSE, rows |-> <<>>]
  /\ membership_daily = [exists |-> FALSE, rows |-> {}]
  /\ call = NoCall
  /\ InitBackfillIdle
  /\ InitBronzeIdle
  /\ InitSideIdle

NextDates == GenerateTradingDatesCall \/ GenerateDateListCall

SpecDates == InitDates /\ [][NextDates]_vars

------------------------------------------------------------------------------
\* get_sp500_from_wikipedia, in SP500Collector ("collector") and in
\* BronzeLayerDelta ("bronze"): the retry loop, one attempt at a step.

\* What one attempt meets: a table with the columns asked for, a table without
\* them, or an exception of the request or of the parse.
AttemptOutcomes == {"table", "columns", "raise"}

\* Mutant of AfterAttempt: the last failed attempt returns instead of raising.
AfterAttempt_ReturnsAfterLastFailure(impl, outcome, i, max_retries) ==
  IF outcome = "table" THEN "returned"
  ELSE IF ~(i < max_retries - 1) THEN "returned"
  ELSE "loop"

\* Where the loop goes after attempt i.  A table returns.  In the collector a
\* table without Symbol raises ValueError inside the try, and every exception
\* is kept in last_err; in the bronze layer missing columns only log, and an
\* exception of the last attempt raises RuntimeError from the handler.
AfterAttempt(impl, outcome, i, max_retries) ==
  IF outcome = "table" THEN "returned"
  ELSE IF impl = "bronze" /\ outcome = "raise" /\ ~(i < max_retries - 1) THEN "raised"
  ELSE "loop"

\* get_sp500_from_wikipedia(max_retries) is called.
StartFetch ==
  /\ wiki_fetch.pc = "idle"
  /\ \E impl \in {"collector", "bronze"}, max_retries \in 0 .. MaxRetries :
       wiki_fetch' = [NoFetch EXCEPT !.pc = "loop", !.impl = impl,
                                     !.max_retries = max_retries]
  /\ UNCHANGED <<silver_dividend_metrics, silver_save, dates_call>>
  /\ UNCHANGED membership_vars
  /\ UNCHANGED backfill_vars
  /\ UNCHANGED bronze_vars

\* One pass of the for loop.
Attempt ==
  /\ wiki_fetch.pc = "loop"
  /\ wiki_fetch.i < wiki_fetch.max_retries
  /\ \E outcome \in AttemptOutcomes :
       LET next == AfterAttempt(wiki_fetch.impl, outcome, wiki_fetch.i,
                                wiki_fetch.max_retries)
       IN  wiki_fetch' = [wiki_fetch EXCEPT
             !.pc = next, !.i = @ + 1, !.attempts = Append(@, outcome),
             !.result = IF next = "returned" THEN "table"
                        ELSE IF next = "raised" THEN "RuntimeError" ELSE "none"]
  /\ UNCHANGED <<silver_dividend_metrics, silver_save, dates_call>>
  /\ UNCHANGED membership_vars
  /\ UNCHANGED backfill_vars
  /\ UNCHANGED bronze_vars

\* The range is used up: the raise after the loop.
RaiseAfterLoop ==
  /\ wiki_fetch.pc = "loop"
  /\ ~(wiki_fetch.i < wiki_fetch.max_retries)
  /\ wiki_fetch' = [wiki_fetch EXCEPT !.pc = "raised", !.result = "RuntimeError"]
  /\ UNCHANGED <<silver_dividend_metrics, silver_save, dates_call>>
  /\ UNCHANGED membership_vars
  /\ UNCHANGED backfill_vars
  /\ UNCHANGED bronze_vars

InitFetch ==
  /\ membership_changes = [exists |-> FALSE, rows |-> <<>>]
  /\ membership_daily = [exists |-> FALSE, rows |-> {}]
  /\ call = NoCall
  /\ InitBackfillIdle
  /\ InitBronzeIdle
  /\ InitSideIdle

NextFetch == StartFetch \/ Attempt \/ RaiseAfterLoop

SpecFetch == InitFetch /\ [][NextFetch]_vars

------------------------------------------------------------------------------
\* run_full_backfill with the bronze date loop taken one date at a time.

\* Step 1 is entered: the bronze backfill builds its date list, or the call
\* raises before the loop and run_bronze_backfill returns False.
BronzeEnter ==
  /\ pc = "bronze"
  /\ \/ /\ bronze_run' = EnterBackfill(bronze_run, bronze_price, params.use_pit,
                                       params.start_date, params.end_date)
        /\ pc' = "batch"
        /\ UNCHANGED <<trace, returned>>
     \/ /\ Advance("bronze", "raise", FALSE, AfterBronze(FALSE))
        /\ UNCHANGED bronze_run
  /\ UNCHANGED <<bronze_price, bronze_dividend, events, collection, workers>>
  /\ UNCHANGED params
  /\ UNCHANGED membership_vars
  /\ UNCHANGED side_vars

\* What a date of the loop can meet in SpecRun: a collection that succeeds, one
\* that is below the threshold, and one that raises.
BatchInputs ==
  { FineDate,
    [FineDate EXCEPT !.successful = 0, !.failed = 10],
    [FineDate EXCEPT !.raises = TRUE] }

\* One pass of the date loop of the bronze backfill the run is in.
BatchDate ==
  /\ pc = "batch"
  /\ bronze_run.pc = "loop"
  /\ bronze_run.i <= Len(bronze_run.date_list)
  /\ \E in \in BatchInputs :
       LET st == BackfillDateStep([run |-> bronze_run, price |-> bronze_price,
                                   dividend |-> bronze_dividend, events |-> events], in)
       IN  /\ bronze_run' = st.run
           /\ bronze_price' = st.price
           /\ bronze_dividend' = st.dividend
           /\ events' = st.events
  /\ UNCHANGED <<collection, workers>>
  /\ UNCHANGED membership_vars
  /\ UNCHANGED backfill_vars
  /\ UNCHANGED side_vars

\* The bronze backfill returned: run_full_backfill looks at bronze_success.
BronzeLeave ==
  /\ pc = "batch"
  /\ bronze_run.pc = "done"
  /\ LET success == bronze_run.returned = "true"
     IN  Advance("bronze", IF success THEN "true" ELSE "false", success,
                 AfterBronze(success))
  /\ UNCHANGED params
  /\ UNCHANGED membership_vars
  /\ UNCHANGED bronze_vars
  /\ UNCHANGED side_vars

NextRun ==
  \/ StartRun \/ SetupStep \/ BronzeEnter \/ BatchDate \/ FinishBronzeBackfill
  \/ BronzeLeave \/ SilverStep \/ GoldStep \/ SummaryStep

\* Every call made by the run returns or raises: a step that can be taken is
\* taken.
SpecRun == InitBackfill /\ [][NextRun]_vars /\ WF_vars(NextRun)

------------------------------------------------------------------------------
\* Vocabulary of the properties, from the specification's words.

\* The tickers with a record dated d.
ActiveOn(df, d) == {r.ticker : r \in {x \in df : x.date = d}}

\* The trading days of [start_date, end_date]: Monday to Friday.
TradingDays(start_date, end_date) ==
  {d \in Days : start_date <= d /\ d <= end_date /\ Weekday(d) \in 0 .. 4}

\* The effective dates, on or before d, of the events of one action and ticker.
EventDates(ledger, action, ticker, d) ==
  {e.effective_date : e \in {x \in Rows(ledger) :
      x.action = action /\ x.ticker = ticker /\ x.effective_date <= d}}

\* A reconstruction returned a DataFrame.
Reconstructed == call.op = "generate" /\ ~call.raised

\* Every attempt get_sp500_for_year made at the reference page failed.
SourceFails ==
  call.primary = "nosymbol" \/ (call.primary = "raise" /\ call.alt = "fail")

\* C1: for every trading day d of the range, the tickers with a record dated d
\* are (base snapshot + tickers added on or before d) - tickers removed on or
\* before d.
C1_ActiveSetFormula ==
  Reconstructed =>
    \A d \in TradingDays(call.start_date, call.end_date) :
      ActiveOn(call.df, d) =
        (call.page \cup {t \in Tickers : EventDates(call.ledger, "add", t, d) # {}})
        \ {t \in Tickers : EventDates(call.ledger, "remove", t, d) # {}}

\* The ledger without its i-th event.
WithoutEvent(ledger, i) ==
  [k \in 1 .. Len(ledger) - 1 |-> IF k < i THEN ledger[k] ELSE ledger[k + 1]]

\* C2: monotonic visibility: the reconstruction of a ledger and that of the
\* ledger plus one event with effective date e agree on every trading day
\* d < e (same base snapshot, same range).
C2_MonotonicVisibility ==
  Reconstructed =>
    \A i \in DOMAIN call.ledger :
      LET before == GenerateDailyMembership(
                      [exists |-> TRUE, rows |-> WithoutEvent(call.ledger, i)], TRUE,
                      call.primary, call.alt, call.page, call.start_date, call.end_date)
      IN  ~before.raised =>
            \A d \in TradingDays(call.start_date, call.end_date) :
              d < call.ledger[i].effective_date =>
                ActiveOn(call.df, d) = ActiveOn(before.df, d)

\* C3: an add and a remove of one ticker with one effective date e: the
\* ticker has no record dated e (remove wins).
C3_RemoveWinsSameDay ==
  Reconstructed =>
    \A t \in Tickers, e \in Days :
      (e \in EventDates(call.ledger, "add", t, e)
       /\ e \in EventDates(call.ledger, "remove", t, e))
        => t \notin ActiveOn(call.df, e)

\* C3 witness: a base ticker added and removed on one trading day of the
\* range, and another ticker with a record on that day.
C3_Witness ==
  /\ Reconstructed
  /\ \E t \in call.page, e \in TradingDays(call.start_date, call.end_date) :
       /\ e \in EventDates(call.ledger, "add", t, e)
       /\ e \in EventDates(call.ledger, "remove", t, e)
       /\ ActiveOn(call.df, e) # {}

\* The case of C4: the only events of ticker t are Remove(t, 2020-01-02) and
\* Add(t, 2020-01-02) (day 1), t is not in the base snapshot, and the range
\* holds 2020-01-01 (day 0) and 2020-01-02.
SameDayPair(t) ==
  /\ Reconstructed
  /\ t \notin call.page
  /\ call.start_date = 0 /\ call.end_date >= 1
  /\ {<<e.effective_date, e.action>> : e \in {x \in Rows(call.ledger) : x.ticker = t}}
       = {<<1, "remove">>, <<1, "add">>}

\* C4 as stated: the ticker is a member on 2020-01-02 (add wins) and not on
\* 2020-01-01.
C4_AddWinsSameDay ==
  \A t \in Tickers :
    SameDayPair(t) => (t \in ActiveOn(call.df, 1) /\ t \notin ActiveOn(call.df, 0))

\* C4 amended: the ticker is a member neither on 2020-01-02 (remove wins) nor
\* on 2020-01-01.
C4_RemoveWinsSameDay ==
  \A t \in Tickers :
    SameDayPair(t) => (t \notin ActiveOn(call.df, 1) /\ t \notin ActiveOn(call.df, 0))

\* C4 witness: the case, with the other ticker a member on both days.
C4_Witness ==
  \E t \in Tickers :
    /\ SameDayPair(t)
    /\ ActiveOn(call.df, 0) # {}
    /\ ActiveOn(call.df, 1) # {}

\* C5: every record has in_dt the earliest add on or before its date (its date
\* without one), out_dt the earliest remove on or before its date (NaT
\* without one), and is_member = (in_dt <= date) and (no out_dt or date < out_dt).
C5_IsMemberInvariant ==
  Reconstructed =>
    \A r \in call.df :
      LET adds == EventDates(call.ledger, "add", r.ticker, r.date)
          removes == EventDates(call.ledger, "remove", r.ticker, r.date)
          in_date == IF adds # {} THEN MinOf(adds) ELSE r.date
      IN  /\ r.in_dt = in_date
          /\ r.out_dt = (IF removes # {} THEN MinOf(removes) ELSE NaT)
          /\ r.is_member <=> (in_date <= r.date /\ (removes = {} \/ r.date < MinOf(removes)))

\* C5 witness: a record of a ticker added twice, before the record's date.
C5_Witness ==
  /\ Reconstructed
  /\ \E r \in call.df :
       /\ Cardinality(EventDates(call.ledger, "add", r.ticker, r.date)) = 2
       /\ r.in_dt < r.date
       /\ r.is_member

\* C6: a readable ledger without events gives a successful reconstruction
\* with every base-snapshot ticker a member on every trading day of the
\* range; an unreadable ledger makes reconstruction raise and the setup stop
\* before it writes daily membership.
C6_EmptyLedgerIsSnapshotOnly ==
  call.gen_reached =>
    /\ (call.readable /\ call.ledger = <<>> /\ ~SourceFails) =>
         /\ ~call.raised
         /\ \A d \in TradingDays(call.start_date, call.end_date), t \in call.page :
              \E r \in call.df : r.date = d /\ r.ticker = t /\ r.is_member
    /\ ~call.readable => (call.raised /\ call.df = {} /\ ~call.wrote_daily)

\* C7: a readable ledger with events and no base snapshot: the reconstruction
\* raises without records, and the setup writes no daily membership.
C7_MissingBaselineFails ==
  (call.gen_reached /\ call.readable /\ call.ledger # <<>> /\ SourceFails) =>
    /\ call.raised /\ call.gen_raised
    /\ call.df = {}
    /\ ~call.wrote_daily
    /\ membership_daily = [exists |-> FALSE, rows |-> {}]

\* C7 witness: a setup that saved events and then found no base snapshot.
C7_Witness ==
  /\ call.op = "setup"
  /\ call.changes # <<>>
  /\ call.gen_reached /\ call.readable /\ call.ledger # <<>> /\ SourceFails
  /\ call.raised

NoDuplicateKeys(rows) ==
  \A i, j \in DOMAIN rows : i # j => Key(rows[i]) # Key(rows[j])

\* C8: the stored ledger never holds two events with one key, and a call whose
\* events all have their key in the ledger writes nothing.
C8_LedgerDeduplicated ==
  /\ [](NoDuplicateKeys(membership_changes.rows))
  /\ [][(/\ call'.op = "save"
         /\ call'.changes # <<>>
         /\ \A e \in Rows(call'.changes) :
              \E x \in Rows(membership_changes.rows) : Key(x) = Key(e))
        => ~call'.wrote]_vars

Copies(rows, e) == Cardinality({i \in DOMAIN rows : rows[i] = e})

\* C9: append-only: every event stored before a call is stored, with the same
\* fields, after it.
C9_AppendOnly ==
  [][\A e \in Rows(membership_changes.rows) :
       Copies(membership_changes'.rows, e) >= Copies(membership_changes.rows, e)]_vars

StartedAt(step, i) == i \in DOMAIN trace /\ trace[i].step = step

SucceededBefore(step, i) ==
  \E j \in 1 .. i - 1 : trace[j].step = step /\ trace[j].success

FailedStep(step) ==
  \E i \in DOMAIN trace : trace[i].step = step /\ ~trace[i].success

\* C10: silver starts only after bronze returned success; gold only after
\* silver returned success and with skip_gold false; after a bronze failure
\* neither silver nor gold starts and the run returns false; after a silver
\* failure gold does not start and the run returns false.
C10_LayerSequencing ==
  /\ \A i \in DOMAIN trace :
       /\ StartedAt("silver", i) => SucceededBefore("bronze", i)
       /\ StartedAt("gold", i) => (SucceededBefore("silver", i) /\ ~params.skip_gold)
  /\ pc = "silver" => StepSuccess("bronze")
  /\ pc = "gold" => (StepSuccess("silver") /\ ~params.skip_gold)
  /\ FailedStep("bronze") =>
       /\ \A i \in DOMAIN trace : trace[i].step \notin {"silver", "gold"}
       /\ pc = "done" /\ returned = "false"
  /\ FailedStep("silver") =>
       /\ \A i \in DOMAIN trace : trace[i].step # "gold"
       /\ pc = "done" /\ returned = "false"

\* C10 witness: a finished run whose bronze, silver and gold steps all ran.
C10_Witness ==
  /\ pc = "done" /\ returned = "true"
  /\ \E i, j, k \in DOMAIN trace :
       /\ i < j /\ j < k
       /\ trace[i].step = "bronze" /\ trace[j].step = "silver" /\ trace[k].step = "gold"

\* The gold step ran and returned False.
GoldFailed == \E i \in DOMAIN trace : trace[i].step = "gold" /\ ~trace[i].success

\* C11: with skip_gold false, a run whose bronze and silver steps succeeded and
\* whose gold step reported failure is reported successful.
C11_GoldFailureTolerated ==
  (pc = "done" /\ ~params.skip_gold /\ StepSuccess("bronze") /\ StepSuccess("silver")
     /\ GoldFailed)
  => returned = "true"

\* A date failed inside the silver backfill.
SilverDateFailed ==
  \E i \in DOMAIN trace : trace[i].step = "silver" /\ trace[i].failed_dates # {}

\* C12: a date that fails in the silver layer makes the silver step fail, the
\* run is reported failed and gold is not started; a run reported successful
\* has no failed silver date.
C12_SilverDateFailurePropagates ==
  /\ SilverDateFailed =>
       /\ ~StepSuccess("silver")
       /\ \A i \in DOMAIN trace : trace[i].step # "gold"
       /\ pc # "gold"
       /\ pc = "done" /\ returned = "false"
  /\ (pc = "done" /\ returned = "true") => ~SilverDateFailed

\* The membership setup step ran and returned False.
SetupFailed == \E i \in DOMAIN trace : trace[i].step = "setup" /\ ~trace[i].success

\* C13: after a failed membership setup the run is reported failed, no layer
\* step is started, and nothing was fetched from the provider or written to
\* the bronze tables.
C13_SetupFailureHaltsRun ==
  SetupFailed =>
    /\ pc = "done" /\ returned = "false"
    /\ \A i \in DOMAIN trace : trace[i].step = "setup"
    /\ bronze_run = NoRun
    /\ events = <<>>
    /\ bronze_price = NoPriceTable /\ bronze_dividend = NoDividendTable

\* C13 witness: a point-in-time run with setup enabled whose setup failed.
C13_Witness ==
  /\ SetupFailed
  /\ params.use_pit /\ params.setup_membership
  /\ pc = "done"

\* The dates of the failed list of the bronze run.
FailedDates == {bronze_run.failed_dates[i].date : i \in DOMAIN bronze_run.failed_dates}

Occurrences(q, x) == Cardinality({i \in DOMAIN q : q[i] = x})

\* C14: a bronze backfill attempts every trading day of its range exactly
\* once and in ascending order, whatever the earlier dates did; no date of the
\* failed list is attempted twice.
C14_EachDateOnceInOrder ==
  bronze_run.pc # "idle" =>
    LET attempted == bronze_run.attempted
        days == TradingDays(bronze_run.start_date, bronze_run.end_date)
    IN  /\ \A i, j \in DOMAIN attempted : i < j => attempted[i] < attempted[j]
        /\ Rows(attempted) \subseteq days
        /\ \A d \in days : (\E a \in Rows(attempted) : d < a) => d \in Rows(attempted)
        /\ bronze_run.pc = "done" => Rows(attempted) = days
        /\ \A d \in FailedDates : Occurrences(attempted, d) = 1

\* C14 witness: a finished run of three dates, the first failed, the second
\* raised, the third succeeded.
C14_Witness ==
  /\ bronze_run.pc = "done"
  /\ Len(bronze_run.attempted) = 3
  /\ Len(bronze_run.failed_dates) = 2
  /\ bronze_run.failed_dates[1].error # bronze_run.failed_dates[2].error
  /\ Len(bronze_run.successful_dates) = 1
  /\ bronze_run.successful_dates[1] = bronze_run.attempted[3]

\* C15: the run returns success exactly when its failed list is empty at the
\* end of the loop (a range without trading day returns success); an
\* attempted date is in exactly one of the two lists; a failed entry has its
\* date and an error text.
C15_SuccessIffNoFailedDate ==
  bronze_run.pc # "idle" =>
    LET attempted == Rows(bronze_run.attempted)
        successful == Rows(bronze_run.successful_dates)
    IN  /\ bronze_run.pc = "done" =>
             /\ (bronze_run.returned = "true") <=> (bronze_run.failed_dates = <<>>)
             /\ TradingDays(bronze_run.start_date, bronze_run.end_date) = {}
                  => bronze_run.returned = "true"
        /\ successful \cup FailedDates = attempted
        /\ successful \cap FailedDates = {}
        /\ \A d \in attempted :
             Occurrences(bronze_run.successful_dates, d)
               + Cardinality({i \in DOMAIN bronze_run.failed_dates :
                                bronze_run.failed_dates[i].date = d}) = 1
        /\ \A i \in DOMAIN bronze_run.failed_dates :
             /\ bronze_run.failed_dates[i].date \in attempted
             /\ bronze_run.failed_dates[i].error # ""

\* C15 witness: a finished run that returned failure with a date in each list.
C15_Witness ==
  /\ bronze_run.pc = "done" /\ bronze_run.returned = "false"
  /\ bronze_run.successful_dates # <<>>
  /\ bronze_run.failed_dates # <<>>

\* C16: in a bronze backfill of either path, a provider fetch of prices for a
\* date comes after a consultation of the gate for that date; after the gate
\* reported the date ingested there is no fetch for it; so a run fetches only
\* the dates the price table did not hold when it began.
C16_GateBeforeFetch ==
  \A i \in DOMAIN events :
    events[i].op = "fetch" =>
      /\ \E j \in 1 .. i - 1 : events[j].op = "gate" /\ events[j].date = events[i].date
      /\ \A j \in 1 .. i - 1 :
           ~(events[j].op = "gate" /\ events[j].date = events[i].date /\ events[j].result)
      /\ events[i].date \notin bronze_run.written

\* C17: the gate answers true for a date with rows and false for a date
\* without; a date is in the price table at most once and no dividend row is
\* stored twice; a collection for a date the price table holds adds no row.
C17_IdempotentIngestion ==
  /\ [](/\ \A d \in Days : bronze_price.rows[d] <= 1
        /\ \A k \in DividendKeys : bronze_dividend.rows[k] <= 1)
  /\ [][/\ \A i \in DOMAIN events' :
             (i > Len(events) /\ events'[i].op = "gate")
               => events'[i].result = (bronze_price.rows[events'[i].date] > 0)
         /\ \A d \in Days :
             bronze_price.rows[d] > 0 =>
               /\ bronze_price'.rows[d] <= bronze_price.rows[d]
               /\ \A k \in DividendKeys :
                    k[2] = d => bronze_dividend'.rows[k] <= bronze_dividend.rows[k]]_vars

\* C18: two concurrent invocations for one date that is not in the table can
\* both pass the gate and both append, leaving the rows of the date twice;
\* the rows are there twice only when each invocation read "not ingested" at
\* both of its gates, that is before the other one wrote.
C18_DoubleWriteOnlyPastGate ==
  /\ \A w \in DOMAIN workers :
       workers[w].wrote => (~workers[w].seen_first /\ ~workers[w].seen_save)
  /\ \A d \in RaceDates :
       /\ bronze_price.rows[d] <= Cardinality({w \in DOMAIN workers :
                                                workers[w].date = d /\ workers[w].wrote})
       /\ bronze_price.rows[d] = 2 =>
            \A w \in DOMAIN workers :
              /\ workers[w].date = d /\ workers[w].wrote
              /\ ~workers[w].seen_first /\ ~workers[w].seen_save

\* C18 witness: both invocations are done and the date is in the table twice.
C18_Witness ==
  /\ Len(workers) = 2
  /\ \A w \in DOMAIN workers :
       workers[w].pc = "done" /\ workers[w].wrote /\ workers[w].mode = "append"
  /\ workers[1].date = workers[2].date
  /\ bronze_price.rows[workers[1].date] = 2

\* C19: a price collection over distinct tickers fetches each ticker once, in
\* list order across the batches, whatever the fetches raise or return empty;
\* it returns with successful and failed disjoint and together the requested
\* tickers, the failed ones being those whose fetch raised or gave nothing.
C19_EveryTickerFetchedOnce ==
  collection.op = "prices" =>
    LET p == collection.prices
        tickers == collection.tickers
    IN  /\ p.fetched = tickers
        /\ \A t \in Rows(tickers) : Occurrences(p.fetched, t) = 1
        /\ Rows(p.successful) \cap Rows(p.failed) = {}
        /\ Rows(p.successful) \cup Rows(p.failed) = Rows(tickers)
        /\ Len(p.successful) + Len(p.failed) = Len(tickers)
        /\ \A t \in Rows(tickers) :
             collection.outcome[t] \in {"raise", "empty"} => t \in Rows(p.failed)
        /\ \A t \in Rows(tickers) :
             collection.outcome[t] = "data" => t \in Rows(p.successful)
        /\ p.data = p.successful

\* C19 witness: three tickers in batches of two; the first raises, the second
\* has no rows, the third, in the second batch, has data.
C19_Witness ==
  /\ collection.op = "prices"
  /\ collection.batch_size = 2
  /\ Len(collection.tickers) = 3
  /\ collection.outcome[collection.tickers[1]] = "raise"
  /\ collection.outcome[collection.tickers[2]] = "empty"
  /\ collection.outcome[collection.tickers[3]] = "data"
  /\ collection.prices.successful = <<collection.tickers[3]>>
  /\ Len(collection.prices.failed) = 2

\* The share of tickers with usable price data is at least 90%.
MeetsThreshold(successful, failed) ==
  successful + failed >= 1 /\ 10 * successful >= 9 * (successful + failed)

\* C20: a date is declared successful exactly when at least one ticker was
\* attempted and 10 * successful >= 9 * (successful + failed).
C20_SuccessIffNinetyPercent ==
  collection.op = "pit" =>
    (collection.result <=> MeetsThreshold(collection.in.successful, collection.in.failed))

\* C20 as the collection has it: when no step of the collection raises, the
\* date is successful exactly when the threshold is met (91 and 90 of 100
\* yes, 89 of 100 and no ticker no); when the constituents lookup or a write
\* to the store raises, the date is not successful whatever the share.
C20_SuccessIffNinetyPercentUnlessRaised ==
  collection.op = "pit" =>
    /\ ~collection.raised =>
         (collection.result <=>
            MeetsThreshold(collection.in.successful, collection.in.failed))
    /\ collection.raised => ~collection.result
    /\ collection.in.constituents = "empty" => ~collection.result

\* C20 witness: exactly 90 of 100 tickers have data and the date succeeds.
C20_Witness ==
  /\ collection.op = "pit"
  /\ collection.in.successful = 90 /\ collection.in.failed = 10
  /\ ~collection.raised
  /\ collection.result

\* The persisted DailyMembershipRecord rows of date d.
Partition(rows, d) == {r \in rows : r.date = d}

\* C21: get_constituents_for_date never raises; it returns the tickers of the
\* persisted partition of the date when there is one, and otherwise the base
\* snapshot the reference page lists.
C21_MembersAsOf ==
  call.op = "constituents" =>
    /\ ~call.raised
    /\ IF Partition(membership_daily.rows, call.target_date) # {}
       THEN call.tickers = ActiveOn(membership_daily.rows, call.target_date)
       ELSE call.tickers = call.page

\* C22: a setup that wrote daily membership for the range leaves, for every
\* date of the range, the records it generated for that date, and for every
\* date outside the range the records that were stored before.
C22_OverwriteByPartition ==
  (call.op = "setup" /\ call.wrote_daily /\ ~call.raised) =>
    \A d \in Days :
      IF call.start_date <= d /\ d <= call.end_date
      THEN Partition(membership_daily.rows, d) = Partition(call.df, d)
      ELSE Partition(membership_daily.rows, d) = Partition(call.daily_before, d)

\* The silver table held rows of date d before the save.
HadRowsFor(d) == \E k \in SilverKeys : k[1] = d /\ silver_save.before.rows[k] > 0

\* C23: a save of metrics for D on an existing silver table that returned:
\* every other date holds the rows it held before, D holds each new row once
\* and nothing else, and the mode was overwrite iff rows of D were stored.
C23_SilverSaveReplacesDate ==
  (/\ silver_save.op = "save" /\ silver_save.metrics # {}
   /\ silver_save.before.exists /\ ~silver_save.raised) =>
    /\ \A k \in SilverKeys :
         silver_dividend_metrics.rows[k] =
           IF k[1] # silver_save.target_date THEN silver_save.before.rows[k]
           ELSE IF k[2] \in silver_save.metrics THEN 1 ELSE 0
    /\ silver_save.mode =
         IF HadRowsFor(silver_save.target_date) THEN "overwrite" ELSE "append"

\* An enumeration of trading days only was called.
WeekdaysOnly == dates_call.op # "none" /\ ~dates_call.include_weekends

\* C24: the enumeration returns the Monday-to-Friday dates of [start, end],
\* each once and ascending; nothing when start > end; and the 5 weekdays of a
\* Monday-to-Sunday week.
C24_TradingDaysEnumerated ==
  WeekdaysOnly =>
    LET result == dates_call.result
        start_date == dates_call.start_date
        end_date == dates_call.end_date
    IN  /\ \A i, j \in DOMAIN result : i < j => result[i] < result[j]
        /\ {result[i] : i \in DOMAIN result} =
             {d \in 0 .. MaxDate : start_date <= d /\ d <= end_date /\ Weekday(d) \in 0 .. 4}
        /\ start_date > end_date => result = <<>>
        /\ (Weekday(start_date) = 0 /\ end_date = start_date + 6) =>
             /\ Len(result) = 5
             /\ start_date + 5 \notin {result[i] : i \in DOMAIN result}
             /\ start_date + 6 \notin {result[i] : i \in DOMAIN result}

\* C24 witness: generate_trading_dates over a Monday-to-Sunday week.
C24_Witness ==
  /\ dates_call.op = "generate_trading_dates"
  /\ Weekday(dates_call.start_date) = 0
  /\ dates_call.end_date = dates_call.start_date + 6
  /\ Len(dates_call.result) = 5

\* The attempts made so far all failed.
AllAttemptsFailed ==
  \A k \in DOMAIN wiki_fetch.attempts : wiki_fetch.attempts[k] # "table"

\* C25: at most max_retries attempts; no attempt follows a successful one; a
\* return is the table of the last attempt; RuntimeError is raised exactly
\* when the call ends with max_retries attempts made and all of them failed.
C25_BoundedRetries ==
  LET attempts == wiki_fetch.attempts
      ended == wiki_fetch.pc \in {"returned", "raised"}
  IN  /\ Len(attempts) <= wiki_fetch.max_retries
      /\ \A k \in DOMAIN attempts : k < Len(attempts) => attempts[k] # "table"
      /\ wiki_fetch.pc = "returned" =>
           /\ Len(attempts) > 0 /\ attempts[Len(attempts)] = "table"
           /\ wiki_fetch.result = "table"
      /\ ended =>
           ((wiki_fetch.pc = "raised" /\ wiki_fetch.result = "RuntimeError")
              <=> (Len(attempts) = wiki_fetch.max_retries /\ AllAttemptsFailed))
      /\ (wiki_fetch.pc = "loop" /\ ~AllAttemptsFailed) => FALSE

\* C25 witness: three attempts were allowed, all were made and failed, and
\* the call raised.
C25_Witness ==
  /\ wiki_fetch.pc = "raised"
  /\ wiki_fetch.max_retries = 3
  /\ Len(wiki_fetch.attempts) = 3
  /\ AllAttemptsFailed

\* The order of the states of a run: Idle, RangeComputed (setup or bronze
\* entered), BatchRunning/BatchComplete (the date loop), the later layers, and
\* the return.
RunOrder ==
  { <<"idle", "setup">>, <<"idle", "bronze">>, <<"setup", "bronze">>, <<"setup", "done">>,
    <<"bronze", "batch">>, <<"bronze", "done">>, <<"batch", "silver">>,
    <<"batch", "done">>, <<"silver", "gold">>, <<"silver", "summary">>,
    <<"silver", "done">>, <<"gold", "summary">>, <<"summary", "done">> }

\* C26: a run that was started ends, returning true or false; its states come
\* in the order of RunOrder; nothing but true or false leaves the run; and the
\* date loop moves to the next date at every pass, so that it ends.
C26_RunTerminates ==
  /\ (pc # "idle") ~> (pc = "done" /\ returned \in {"true", "false"})
  /\ (bronze_run.pc = "loop") ~> (bronze_run.pc = "done")
  /\ [](pc = "done" => returned \in {"true", "false"})
  /\ [](pc # "done" => returned = "none")
  /\ [][pc' # pc => <<pc, pc'>> \in RunOrder]_vars
  /\ [][(bronze_run.pc = "loop" /\ bronze_run' # bronze_run) =>
          (bronze_run'.i = bronze_run.i + 1 \/ bronze_run'.pc = "done")]_vars
  /\ [](bronze_run.pc = "loop" => bronze_run.i <= Len(bronze_run.date_list) + 1)

\* C26 witness: a run that went through a date loop of two dates or more and
\* through every layer, and returned true.
C26_Witness ==
  /\ pc = "done" /\ returned = "true"
  /\ Len(bronze_run.attempted) >= 2
  /\ \E i \in DOMAIN trace : trace[i].step = "gold"

\* The collection wrote price rows of its date.
WrotePriceRows ==
  \E i \in DOMAIN events :
    events[i].op = "write" /\ events[i].date = collection.target_date

\* C27: a point-in-time collection that persisted price rows of its date is
\* reported successful.
C27_RowsOnlyForSuccessfulDates ==
  (collection.op = "pit" /\ WrotePriceRows) => collection.result

\* C28: a pass of the bronze date loop for date D leaves the price rows of
\* every other date as they were.
C28_OtherDatesUntouched ==
  [][(bronze_run.pc = "loop" /\ bronze_run.i <= Len(bronze_run.date_list)) =>
       \A d \in Days :
         d # bronze_run.date_list[bronze_run.i] =>
           bronze_price'.rows[d] = bronze_price.rows[d]]_vars

\* C29: in a reconstruction, a ticker with a remove event effective on or
\* before trading day d has no record dated d, whatever add events the ledger
\* holds for it.
C29_RemovalIsPermanent ==
  Reconstructed =>
    \A t \in Tickers, d \in TradingDays(call.start_date, call.end_date) :
      EventDates(call.ledger, "remove", t, d) # {} => t \notin ActiveOn(call.df, d)

\* C29 witness: a reconstruction over a day d for a ticker removed at r and
\* added again at a, r < a <= d, that is on the page and has no record dated d.
C29_Witness ==
  /\ Reconstructed
  /\ \E t \in call.page, d \in TradingDays(call.start_date, call.end_date) :
       /\ \E r \in EventDates(call.ledger, "remove", t, d),
             a \in EventDates(call.ledger, "add", t, d) : r < a
       /\ t \notin ActiveOn(call.df, d)

\* The gate of a price-only collection answered that the date is ingested.
GateSaysIngested ==
  Len(events) > 0 /\ events[1].op = "gate" /\ events[1].result

\* An exception reached run_price_only_collection: listing the constituents
\* raised, or the write of the collected rows did.
ExceptionReached ==
  /\ ~GateSaysIngested
  /\ \/ collection.in.constituents = "raise"
     \/ /\ collection.in.constituents = "tickers"
        /\ collection.in.successful > 0
        /\ ~collection.in.write_ok

\* C30: run_price_only_collection returns False exactly when an exception
\* reached it; it returns True when the gate says the date is ingested (and
\* then fetches and writes nothing) and when every ticker failed (and then
\* writes nothing).
C30_PriceStepIgnoresFailedTickers ==
  collection.op = "price_only" =>
    /\ collection.result <=> ~ExceptionReached
    /\ GateSaysIngested => (collection.result /\ Len(events) = 1)
    /\ (/\ ~GateSaysIngested /\ collection.in.constituents = "tickers"
        /\ collection.in.successful = 0) =>
         /\ collection.result
         /\ \A i \in DOMAIN events : events[i].op # "write"

\* C30 witness: every one of ten or more tickers failed, nothing was written,
\* and the price step is reported successful.
C30_Witness ==
  /\ collection.op = "price_only"
  /\ ~GateSaysIngested
  /\ collection.in.constituents = "tickers"
  /\ collection.in.successful = 0 /\ collection.in.failed >= 10
  /\ collection.result
  /\ \A i \in DOMAIN events : events[i].op # "write"

====
